---- MODULE Spec2Model ----
(***************************************************************************)
(* netsqlite: one server process owns the sqlite3 handle of a database,   *)
(* clients reach it over a local socket.  The module models the message   *)
(* codec, the server's handling threads and its lock, the client facade    *)
(* (NetSQLiteConnection), and discovery/spawn (connect, __poll).          *)
(***************************************************************************)
EXTENDS Integers, Sequences, FiniteSets, TLC

(***************************************************************************)
(* Bounds of the model.                                                    *)
(***************************************************************************)
NClients == 2        \* client processes (one NetSQLiteConnection each)
MaxCalls == 3        \* calls of NetSQLiteConnection.execute over all clients
MaxKills == 2        \* server processes killed from outside (SIGKILL)
MaxProcs == 5        \* server processes ever spawned
MaxQueue == 3        \* frames a raw peer may have in flight on its transport

Clients == 1..NClients
Pids    == 1..MaxProcs

(***************************************************************************)
(* Python values.  Every value is a record [ty, v]; ty is compared first, *)
(* so values of different Python types are simply unequal.                *)
(***************************************************************************)
VStr(s)      == [ty |-> "str", v |-> s]
VInt(n)      == [ty |-> "int", v |-> n]
VNone       == [ty |-> "none", v |-> 0]
\* a float by its repr, a bool by its name
VFloat(r)    == [ty |-> "float", v |-> r]
VBool(b)     == [ty |-> "bool", v |-> b]
\* a dict with string keys: a function from its keys to its values
VDict(f)     == [ty |-> "dict", v |-> f]
VTuple(seq)    == [ty |-> "tuple", v |-> seq]
VList(seq)    == [ty |-> "list", v |-> seq]
\* an exception object: its class name and its args tuple
VExc(cls, args) == [ty |-> "exc", v |-> <<cls, args>>]
ExcClass(e) == e.v[1]
ExcArgs(e)  == e.v[2]
IsExc(x)    == x.ty = "exc"
IsSeqVal(x) == x.ty \in {"tuple", "list"}

\* str(x) for the values that are formatted into messages
PyStr(x) == IF x.ty = "str" THEN x.v
            ELSE IF x.ty = "none" THEN "None"
            ELSE IF x.ty = "int" THEN ToString(x.v)
            ELSE IF x.ty \in {"float", "bool"} THEN x.v
            ELSE "?"

(***************************************************************************)
(* JSON documents (the bytes of a frame, seen as the document they hold). *)
(***************************************************************************)
JStr(s)  == [ty |-> "jstr", v |-> s]
JNum(n)  == [ty |-> "jnum", v |-> n]
JNull    == [ty |-> "jnull", v |-> 0]
JReal(r) == [ty |-> "jreal", v |-> r]
JBool(b) == [ty |-> "jbool", v |-> b]
JArr(s)  == [ty |-> "jarr", v |-> s]
JObj(f)  == [ty |-> "jobj", v |-> f]
\* bytes that are not UTF-8, or not a JSON document
JBad(e)  == [ty |-> "jbad", v |-> e]
\* the tagged record _serialize writes for an exception
JExc(cls, args) == [ty |-> "jexc", v |-> <<cls, args>>]

RECURSIVE ToJson(_)
\* (mutant) floats and bools are not JSON types of their own: default=str takes them
ToJson_flat(x) ==
  IF x.ty \in {"str", "float", "bool"} THEN JStr(x.v)
  ELSE IF x.ty = "int" THEN JNum(x.v)
  ELSE IF x.ty = "none" THEN JNull
  ELSE IF IsSeqVal(x) THEN JArr([i \in 1..Len(x.v) |-> ToJson(x.v[i])])
  ELSE JStr(PyStr(x))

ToJson(x) ==
  IF x.ty = "str" THEN JStr(x.v)
  ELSE IF x.ty = "int" THEN JNum(x.v)
  ELSE IF x.ty = "none" THEN JNull
  ELSE IF x.ty = "float" THEN JReal(x.v)
  ELSE IF x.ty = "bool" THEN JBool(x.v)
  ELSE IF IsSeqVal(x) THEN JArr([i \in 1..Len(x.v) |-> ToJson(x.v[i])])
  ELSE IF x.ty = "dict" THEN JObj([k \in DOMAIN x.v |-> ToJson(x.v[k])])
  ELSE JStr(PyStr(x))            \* default=str

RECURSIVE FromJson(_)
FromJson(j) ==
  IF j.ty = "jstr" THEN VStr(j.v)
  ELSE IF j.ty = "jnum" THEN VInt(j.v)
  ELSE IF j.ty = "jnull" THEN VNone
  ELSE IF j.ty = "jreal" THEN VFloat(j.v)
  ELSE IF j.ty = "jbool" THEN VBool(j.v)
  ELSE IF j.ty = "jobj" THEN VDict([k \in DOMAIN j.v |-> FromJson(j.v[k])])
  ELSE VList([i \in 1..Len(j.v) |-> FromJson(j.v[i])])

\* _serialize(obj): an exception becomes {_exception, type, args}
serialize(obj) ==
  IF IsExc(obj)
  THEN JExc(ExcClass(obj), [i \in 1..Len(ExcArgs(obj)) |-> ToJson(ExcArgs(obj)[i])])
  ELSE ToJson(obj)

\* an exception that leaves the function instead of a value
Raised(cls) == [ty |-> "raise", v |-> cls]
IsRaised(x) == x.ty = "raise"

\* bool(x) of a decoded JSON document
Truthy(j) ==
  IF j.ty = "jbool" THEN j.v = "True"
  ELSE IF j.ty = "jnum" THEN j.v # 0
  ELSE IF j.ty = "jreal" THEN j.v \notin {"0.0", "-0.0"}
  ELSE IF j.ty = "jstr" THEN j.v # ""
  ELSE IF j.ty = "jarr" THEN Len(j.v) > 0
  ELSE IF j.ty = "jobj" THEN DOMAIN j.v # {}
  ELSE FALSE

\* s[0] for the strings that occur as "args" of a record
FirstChar(str) == IF str = "xy" THEN "x" ELSE str

\* Exception(f"{obj['type']}: {obj['args'][0] if obj['args'] else ''}") for a JSON
\* object whose "_exception" is true-ish; a missing key or an args that cannot be
\* indexed raises
ExceptionFromRecord(o) ==
  IF "type" \notin DOMAIN o.v \/ "args" \notin DOMAIN o.v THEN Raised("KeyError")
  ELSE LET args == o.v["args"]
           kind == PyStr(FromJson(o.v["type"]))
       IN IF ~Truthy(args) THEN VExc("Exception", <<VStr(kind \o ": ")>>)
          ELSE IF args.ty = "jarr"
          THEN VExc("Exception", <<VStr(kind \o ": " \o PyStr(FromJson(args.v[1])))>>)
          ELSE IF args.ty = "jstr"
          THEN VExc("Exception", <<VStr(kind \o ": " \o FirstChar(args.v))>>)
          ELSE IF args.ty = "jobj" THEN Raised("KeyError")
          ELSE Raised("TypeError")

\* (mutant) the record's "type" names the class of the object that is built
deserialize_named(data) ==
  IF data.ty = "jbad" THEN Raised(data.v)
  ELSE IF data.ty = "jexc"
  THEN VExc(data.v[1], [i \in 1..Len(data.v[2]) |-> FromJson(data.v[2][i])])
  ELSE FromJson(data)

\* _deserialize(data): the tagged record is rebuilt as a plain Exception; bytes
\* that do not decode raise
deserialize(data) ==
  IF data.ty = "jbad" THEN Raised(data.v)
  ELSE IF data.ty = "jexc"
  THEN VExc("Exception",
           << VStr(data.v[1] \o ": " \o
                  (IF Len(data.v[2]) > 0 THEN PyStr(FromJson(data.v[2][1])) ELSE "")) >>)
  ELSE IF data.ty = "jobj" /\ "_exception" \in DOMAIN data.v /\ Truthy(data.v["_exception"])
  THEN ExceptionFromRecord(data)
  ELSE FromJson(data)

(***************************************************************************)
(* Strings whose characters matter (auth tokens): their code points.      *)
(* "a#" stands for the two characters 'a', U+00E9.                        *)
(***************************************************************************)
CodePoints(s) ==
  CASE s = "a"    -> <<97>>
    [] s = "ab"   -> <<97, 98>>
    [] s = "ac"   -> <<97, 99>>
    [] s = "bb"   -> <<98, 98>>
    [] s = "1"    -> <<49>>
    [] s = "a#"   -> <<97, 233>>
    [] s = "None" -> <<78, 111, 110, 101>>
    [] OTHER      -> <<63>>

IsAscii(s) == \A i \in 1..Len(CodePoints(s)) : CodePoints(s)[i] < 128

\* hmac.compare_digest(a, b) on two str: TypeError unless both are ASCII
compare_digest(a, b) ==
  IF ~IsAscii(a) \/ ~IsAscii(b) THEN "TypeError"
  ELSE IF CodePoints(a) = CodePoints(b) THEN "equal" ELSE "differ"

(***************************************************************************)
(* The engine: one table of one integer column per database file.         *)
(* INSERT appends its parameter, SELECT returns every row, anything else  *)
(* is rejected with sqlite3.OperationalError.                             *)
(***************************************************************************)
Dbs == {"x", "y"}
Queries == {"INSERT", "SELECT", "BAD"}

EngineAccepts(query) == query \in {VStr("INSERT"), VStr("SELECT")}
EngineError == VExc("OperationalError", <<VStr("syntax error")>>)

\* the table after the statement ran on table t
EngineApply(t, query, params) ==
  IF query = VStr("INSERT") /\ Len(params.v) > 0 /\ params.v[1].ty = "int"
  THEN Append(t, params.v[1].v) ELSE t

\* cursor.fetchall(): a list of row tuples
EngineRows(t, query) ==
  IF query = VStr("SELECT") THEN VList([i \in 1..Len(t) |-> VTuple(<<VInt(t[i])>>)])
  ELSE VList(<<>>)

\* [list(row) for row in res]
RowsToLists(res) == VList([i \in 1..Len(res.v) |-> VList(res.v[i].v)])

(***************************************************************************)
(* State.                                                                  *)
(***************************************************************************)
VARIABLES
  proc,    \* proc[p]: server process p (a NetSQLiteServer): st, db_path, port, auth_token
  lock,    \* lock[p]: the client whose handling thread holds NetSQLiteServer.lock, or 0
  store,   \* store[d]: the rows of database file d
  tr,      \* tr[c]: the socket between client c and its handling thread
  h,       \* h[c]: the handling thread (handle_client) serving client c's socket
  cl,      \* cl[c]: client c: its NetSQLiteConnection and the call in progress
  refdb,   \* history: the one-at-a-time engine, advanced when the lock is granted
  expect,  \* history: expect[c], what that engine returned for c's call in progress
  errs,    \* history: errs[c], the engine errors raised while serving client c
  nkills,  \* servers killed so far
  ncalls,  \* execute calls started so far
  codec,   \* a value on its way through _serialize and _deserialize
  self     \* a NetSQLiteConnection shared by threads: conn, child_process, _lock

vars == <<proc, lock, store, tr, h, cl, refdb, expect, errs, nkills, ncalls, codec, self>>

\* codec: where the value is (start, sent, done), the object given to _serialize,
\* the frame, what _deserialize gave, the round trips made, and whether the frame
\* came from _serialize ("value") or was written by a peer ("peer")
NoCodec     == [step |-> "none", obj |-> VNone, data |-> VNone, out |-> VNone,
                trips |-> 0, src |-> "none"]
\* self.conn: the socket in use (an index of tr, 0 in the specifications where every
\* client has its own object and socket); self._lock: the thread holding it, or 0
NoSelf      == [conn |-> 0, child_process |-> 0, lock |-> 0]
NoProc      == [st |-> "none", db |-> "x", port |-> 0, auth_token |-> VNone]
NoTransport == [pid |-> 0, c2s |-> <<>>, s2c |-> <<>>, copen |-> FALSE, sopen |-> FALSE]
\* a handling thread: where it is, the request it serves, the engine's view of the
\* table; and its history: the first message of the handshake, whether it sent the
\* success marker, the handshake's error Responses, whether a request was dispatched
NoHandler   == [pc |-> "none", msg |-> VNone, snap |-> <<>>,
                first |-> VNone, marker |-> FALSE, rejected |-> 0, dispatched |-> FALSE]

Running(p) == proc[p].st = "listening"
\* (mutant) the server has one thread: while a request is inside the engine call no
\* other socket is attended to
Serving_single(c) == /\ tr[c].pid # 0 /\ Running(tr[c].pid) /\ tr[c].sopen
                     /\ lock[tr[c].pid] \in {0, c}
\* client c's socket has a live handling thread at its server end
Serving(c) == tr[c].pid # 0 /\ Running(tr[c].pid) /\ tr[c].sopen
\* nothing will ever answer on client c's socket again
PeerGone(c) == tr[c].pid = 0 \/ ~Running(tr[c].pid) \/ ~tr[c].sopen

\* conn.send_bytes(_serialize(v)) at the server end; a frame to a closed peer is lost
ServerSend(t, v) == IF t.copen THEN [t EXCEPT !.s2c = Append(@, serialize(v))] ELSE t
\* conn.send_bytes(_serialize(v)) at the client end
ClientSend(t, v) == [t EXCEPT !.c2s = Append(@, serialize(v))]

(***************************************************************************)
(* NetSQLiteServer.handle_client                                           *)
(***************************************************************************)
\* the handshake's decision on the first message
AuthVerdict(auth_msg, auth_token) ==
  \* _deserialize raised: like the TypeError below, the exception leaves handle_client
  IF IsRaised(auth_msg) THEN "TypeError"
  ELSE IF ~IsSeqVal(auth_msg) \/ Len(auth_msg.v) < 2 THEN "required"
  ELSE IF auth_msg.v[1] # VStr("auth") THEN "required"
  ELSE LET r == compare_digest(PyStr(auth_msg.v[2]), PyStr(auth_token))
       IN IF r = "TypeError" THEN "TypeError"
          ELSE IF r = "equal" THEN "authenticated" ELSE "failed"

AuthReply(verdict) ==
  IF verdict = "authenticated" THEN VStr("authenticated")
  ELSE IF verdict = "failed" THEN VExc("Exception", <<VStr("Authentication failed")>>)
  ELSE VExc("Exception", <<VStr("Authentication required")>>)

\* first message on a socket of a server that has an auth_token
HandleAuth(c) ==
  /\ Serving(c) /\ h[c].pc = "auth" /\ tr[c].c2s # <<>>
  /\ LET verdict == AuthVerdict(deserialize(Head(tr[c].c2s)), proc[tr[c].pid].auth_token)
         t1 == [tr[c] EXCEPT !.c2s = Tail(@)]
         \* compare_digest raising TypeError: no reply, the finally clause closes
         t2 == IF verdict = "TypeError" THEN t1 ELSE ServerSend(t1, AuthReply(verdict))
     IN /\ tr' = [tr EXCEPT ![c] = [t2 EXCEPT !.sopen = (verdict = "authenticated")]]
        /\ h' = [h EXCEPT ![c] = [@ EXCEPT
                  !.pc = IF verdict = "authenticated" THEN "recv" ELSE "closed",
                  !.first = deserialize(Head(tr[c].c2s)),
                  !.marker = (verdict = "authenticated"),
                  !.rejected = IF verdict \in {"failed", "required"} THEN 1 ELSE 0]]
  /\ UNCHANGED <<proc, lock, store, cl, refdb, expect, errs, nkills, ncalls, codec, self>>

\* a request that goes on to NetSQLiteServer.execute
CallsEngine(message) ==
  IsSeqVal(message) /\ Len(message.v) >= 3 /\ message.v[1] = VStr("execute")

\* (mutant) a method that is not known is answered like a ping
Dispatch_lenient(message, db_path) ==
  IF ~IsSeqVal(message) \/ Len(message.v) = 0
  THEN VExc("Exception", <<VStr("Invalid message format")>>)
  ELSE IF message.v[1] = VStr("execute")
  THEN VExc("Exception", <<VStr("execute requires query and params")>>)
  ELSE IF message.v[1] = VStr("target_database") THEN VStr(db_path)
  ELSE VStr("pong")

\* the reply to every request that does not reach the engine
Dispatch(message, db_path) ==
  IF ~IsSeqVal(message) \/ Len(message.v) = 0
  THEN VExc("Exception", <<VStr("Invalid message format")>>)
  ELSE IF message.v[1] = VStr("execute")
  THEN VExc("Exception", <<VStr("execute requires query and params")>>)
  ELSE IF message.v[1] = VStr("target_database") THEN VStr(db_path)
  ELSE IF message.v[1] = VStr("ping") THEN VStr("pong")
  ELSE VExc("Exception", <<VStr("Unknown method: " \o PyStr(message.v[1]))>>)

\* (mutant) every request is served under self.lock, which is kept afterwards
HandleRequest_locking(c) ==
  /\ Serving(c) /\ h[c].pc = "recv" /\ tr[c].c2s # <<>>
  /\ LET message == deserialize(Head(tr[c].c2s))
         t1 == [tr[c] EXCEPT !.c2s = Tail(@)]
     IN IF IsRaised(message)
        THEN /\ tr' = [tr EXCEPT ![c] = [t1 EXCEPT !.sopen = FALSE]]
             /\ h' = [h EXCEPT ![c].pc = "closed"]
             /\ lock' = lock
        ELSE IF CallsEngine(message)
        THEN /\ tr' = [tr EXCEPT ![c] = t1]
             /\ h' = [h EXCEPT ![c].pc = "lock", ![c].msg = message, ![c].dispatched = TRUE]
             /\ lock' = lock
        ELSE /\ lock[tr[c].pid] = 0
             /\ lock' = [lock EXCEPT ![tr[c].pid] = c]
             /\ tr' = [tr EXCEPT ![c] = ServerSend(t1, Dispatch(message, proc[tr[c].pid].db))]
             /\ h' = [h EXCEPT ![c].dispatched = TRUE]
  /\ UNCHANGED <<proc, store, cl, refdb, expect, errs, nkills, ncalls, codec, self>>

\* one turn of the while loop: receive a frame, dispatch, reply.  An exception
\* raised by _deserialize is outside the inner try and is none of those the outer
\* try catches: the thread ends through the finally clause, which closes the socket
HandleRequest(c) ==
  /\ Serving(c) /\ h[c].pc = "recv" /\ tr[c].c2s # <<>>
  /\ LET message == deserialize(Head(tr[c].c2s))
         t1 == [tr[c] EXCEPT !.c2s = Tail(@)]
     IN IF IsRaised(message)
        THEN /\ tr' = [tr EXCEPT ![c] = [t1 EXCEPT !.sopen = FALSE]]
             /\ h' = [h EXCEPT ![c].pc = "closed"]
        ELSE IF CallsEngine(message)
        THEN /\ tr' = [tr EXCEPT ![c] = t1]
             /\ h' = [h EXCEPT ![c].pc = "lock", ![c].msg = message, ![c].dispatched = TRUE]
        ELSE /\ tr' = [tr EXCEPT ![c] = ServerSend(t1, Dispatch(message, proc[tr[c].pid].db))]
             /\ h' = [h EXCEPT ![c].dispatched = TRUE]
  /\ UNCHANGED <<proc, lock, store, cl, refdb, expect, errs, nkills, ncalls, codec, self>>

\* conn.recv_bytes() raising EOFError: the peer closed its end
HandleEOF(c) ==
  /\ Serving(c) /\ h[c].pc \in {"auth", "recv"} /\ tr[c].c2s = <<>> /\ ~tr[c].copen
  /\ tr' = [tr EXCEPT ![c].sopen = FALSE]
  /\ h' = [h EXCEPT ![c].pc = "closed"]
  /\ UNCHANGED <<proc, lock, store, cl, refdb, expect, errs, nkills, ncalls, codec, self>>

(***************************************************************************)
(* NetSQLiteServer.execute                                                 *)
(***************************************************************************)
QueryOf(message)  == message.v[2]
\* if not params: params = tuple()
ParamsOf(message) == IF IsSeqVal(message.v[3]) /\ Len(message.v[3].v) > 0
                     THEN message.v[3] ELSE VTuple(<<>>)

\* (mutant) the engine call is not wrapped in the lock
LockFree_always(p) == TRUE
\* with self.lock: may be entered
LockFree(p) == lock[p] = 0

AcquireLock(c) ==
  /\ Serving(c) /\ h[c].pc = "lock" /\ LockFree(tr[c].pid)
  /\ LET d == proc[tr[c].pid].db
         q == QueryOf(h[c].msg)
         a == ParamsOf(h[c].msg)
     IN /\ lock' = [lock EXCEPT ![tr[c].pid] = c]
        /\ h' = [h EXCEPT ![c].pc = "execute"]
        /\ refdb' = [refdb EXCEPT ![d] = IF EngineAccepts(q) THEN EngineApply(@, q, a) ELSE @]
        /\ expect' = [expect EXCEPT ![c] =
             IF EngineAccepts(q)
             THEN EngineRows(EngineApply(refdb[d], q, a), q)
             ELSE EngineError]
  /\ UNCHANGED <<proc, store, tr, cl, errs, nkills, ncalls, codec, self>>

\* (mutant) the with block ends before fetchall: the lock is released too early
EngineExecute_releasing(c) ==
  /\ Serving(c) /\ h[c].pc = "execute"
  /\ LET p == tr[c].pid IN
     IF EngineAccepts(QueryOf(h[c].msg))
     THEN /\ h' = [h EXCEPT ![c].pc = "fetchall", ![c].snap = store[proc[p].db]]
          /\ lock' = [lock EXCEPT ![p] = 0]
          /\ UNCHANGED <<tr, errs>>
     ELSE /\ lock' = [lock EXCEPT ![p] = 0]
          /\ tr' = [tr EXCEPT ![c] = ServerSend(@, EngineError)]
          /\ h' = [h EXCEPT ![c].pc = "recv", ![c].msg = VNone]
          /\ errs' = [errs EXCEPT ![c] = @ + 1]
  /\ UNCHANGED <<proc, store, cl, refdb, expect, nkills, ncalls, codec, self>>

\* (mutant) no except clause around the dispatch: the engine's exception ends the
\* handling thread, the finally clause closes the socket
EngineExecute_uncaught(c) ==
  /\ Serving(c) /\ h[c].pc = "execute"
  /\ LET p == tr[c].pid IN
     IF EngineAccepts(QueryOf(h[c].msg))
     THEN /\ h' = [h EXCEPT ![c].pc = "fetchall", ![c].snap = store[proc[p].db]]
          /\ UNCHANGED <<lock, tr, errs>>
     ELSE /\ lock' = [lock EXCEPT ![p] = 0]
          /\ tr' = [tr EXCEPT ![c].sopen = FALSE]
          /\ h' = [h EXCEPT ![c].pc = "closed", ![c].msg = VNone]
          /\ errs' = [errs EXCEPT ![c] = @ + 1]
  /\ UNCHANGED <<proc, store, cl, refdb, expect, nkills, ncalls, codec, self>>

\* (mutant) the engine's exception leaves the with block without releasing
EngineExecute_leaking(c) ==
  /\ Serving(c) /\ h[c].pc = "execute"
  /\ LET p == tr[c].pid IN
     IF EngineAccepts(QueryOf(h[c].msg))
     THEN /\ h' = [h EXCEPT ![c].pc = "fetchall", ![c].snap = store[proc[p].db]]
          /\ UNCHANGED <<lock, tr, errs>>
     ELSE /\ lock' = lock
          /\ tr' = [tr EXCEPT ![c] = ServerSend(@, EngineError)]
          /\ h' = [h EXCEPT ![c].pc = "recv", ![c].msg = VNone]
          /\ errs' = [errs EXCEPT ![c] = @ + 1]
  /\ UNCHANGED <<proc, store, cl, refdb, expect, nkills, ncalls, codec, self>>

\* self.connection.execute(query, params): the statement starts on the handle
EngineExecute(c) ==
  /\ Serving(c) /\ h[c].pc = "execute"
  /\ LET p == tr[c].pid IN
     IF EngineAccepts(QueryOf(h[c].msg))
     THEN /\ h' = [h EXCEPT ![c].pc = "fetchall", ![c].snap = store[proc[p].db]]
          /\ UNCHANGED <<lock, tr, errs>>
     ELSE \* the engine raises: the with block releases, except Exception replies
          /\ lock' = [lock EXCEPT ![p] = 0]
          /\ tr' = [tr EXCEPT ![c] = ServerSend(@, EngineError)]
          /\ h' = [h EXCEPT ![c].pc = "recv", ![c].msg = VNone]
          /\ errs' = [errs EXCEPT ![c] = @ + 1]
  /\ UNCHANGED <<proc, store, cl, refdb, expect, nkills, ncalls, codec, self>>

\* .fetchall(), leaving the with block, and the reply with the rows
EngineFetchall(c) ==
  /\ Serving(c) /\ h[c].pc = "fetchall"
  /\ LET p == tr[c].pid
         q == QueryOf(h[c].msg)
         after == EngineApply(h[c].snap, q, ParamsOf(h[c].msg))
     IN /\ store' = [store EXCEPT ![proc[p].db] = after]
        /\ lock' = [lock EXCEPT ![p] = 0]
        /\ tr' = [tr EXCEPT ![c] = ServerSend(@, RowsToLists(EngineRows(after, q)))]
        /\ h' = [h EXCEPT ![c].pc = "recv", ![c].msg = VNone, ![c].snap = <<>>]
  /\ UNCHANGED <<proc, cl, refdb, expect, errs, nkills, ncalls, codec, self>>

(***************************************************************************)
(* NetSQLiteConnection: _send_receive, are_we_gainfully_connected, execute *)
(***************************************************************************)
ConnectionError == VExc("ConnectionError", <<VStr("Connection to server lost")>>)
HandleClosed    == VExc("OSError", <<VStr("handle is closed")>>)
NoGarbage == {}

NewClient(d, tok) ==
  [pc |-> "idle", db |-> d, token |-> tok, child |-> 0, port |-> 0,
   query |-> VNone, params |-> VNone, check |-> TRUE, out |-> VNone,
   garbage |-> NoGarbage,
   \* history of the call in progress: reconnects made, execute frames sent, and at
   \* its start: whether the server process was dead, the kills and engine errors so far
   \* and whether the liveness ping of this call was answered
   nrec |-> 0, nsent |-> 0, dead0 |-> FALSE, k0 |-> 0, e0 |-> 0, pinged |-> FALSE,
   \* self.conn: "none", "cur" (the socket tr[c]), "lost" (an earlier socket whose
   \* peer is gone), "closed" (an earlier socket, closed at this end)
   conn |-> "none",
   \* connect(): who called it, port_offset, the Popen it holds, __poll's wait/total_waited
   mode |-> "connect", off |-> 0, spawned |-> 0, wait |-> 0, total |-> 0,
   \* history of the last connect(): what it did, slot by slot
   hist |-> <<>>]

\* one step of connect(): "try" (Client(...) on the slot), "pass" (continue),
\* "spawn", "attach" and "own" (connect returns), "reject", "eof", "other",
\* "timeout" and "none" (connect raises), with the reply that decided it
Event(ev, slot, reply) == [ev |-> ev, slot |-> slot, reply |-> reply]
Logged(me, ev, slot, reply) == [me EXCEPT !.hist = Append(@, Event(ev, slot, reply))]

\* the frames of the facade's requests
PingMsg          == VTuple(<<VStr("ping")>>)
TargetMsg        == VTuple(<<VStr("target_database")>>)
AuthMsg(tok)     == VTuple(<<VStr("auth"), tok>>)
ExecuteMsg(q, a) == VTuple(<<VStr("execute"), q, a>>)

\* the outcome of _send_receive at the point of conn.send_bytes:
\* "sent", or the exception that leaves _send_receive
SendOutcome(c) ==
  IF cl[c].conn = "closed" \/ (cl[c].conn = "cur" /\ ~tr[c].copen) THEN "OSError"
  ELSE IF cl[c].conn # "cur" \/ PeerGone(c) THEN "ConnectionError"
  ELSE "sent"

\* the outcome of _send_receive at the point of conn.recv_bytes:
\* "frame", "wait" (nothing to read yet), or the exception
RecvOutcome(c) ==
  IF ~tr[c].copen THEN "OSError"
  ELSE IF tr[c].s2c # <<>> THEN "frame"
  ELSE IF PeerGone(c) THEN "ConnectionError"
  ELSE "wait"

\* execute(query, params, check): the call starts
ExecuteCall(c) ==
  /\ cl[c].pc = "idle" /\ ncalls < MaxCalls
  /\ \E q \in Queries, check \in BOOLEAN :
       cl' = [cl EXCEPT ![c] = [@ EXCEPT
                !.pc = IF check THEN "ping" ELSE "send",
                !.query = VStr(q),
                \* if not params: params = tuple()
                !.params = IF q = "INSERT" THEN VTuple(<<VInt(c)>>) ELSE VTuple(<<>>),
                !.check = check, !.out = VNone, !.nrec = 0, !.nsent = 0, !.pinged = FALSE,
                !.dead0 = (tr[c].pid # 0 /\ proc[tr[c].pid].st = "dead"),
                !.k0 = nkills, !.e0 = errs[c]]]
  /\ ncalls' = ncalls + 1
  /\ UNCHANGED <<proc, lock, store, tr, h, refdb, expect, errs, nkills, codec, self>>

\* are_we_gainfully_connected: the ping is sent; a failure makes it return False
FacadePing(c) ==
  /\ cl[c].pc = "ping"
  /\ IF SendOutcome(c) = "sent"
     THEN /\ tr' = [tr EXCEPT ![c] = ClientSend(@, PingMsg)]
          /\ cl' = [cl EXCEPT ![c].pc = "pong"]
     ELSE /\ cl' = [cl EXCEPT ![c].pc = "reconnect"]
          /\ tr' = tr
  /\ UNCHANGED <<proc, lock, store, h, refdb, expect, errs, nkills, ncalls, codec, self>>

\* (mutant) a lost connection leaves are_we_gainfully_connected as an exception
FacadePong_raising(c) ==
  /\ cl[c].pc = "pong" /\ RecvOutcome(c) # "wait"
  /\ IF RecvOutcome(c) = "frame"
     THEN LET response == deserialize(Head(tr[c].s2c)) IN
          /\ tr' = [tr EXCEPT ![c].s2c = Tail(@)]
          /\ cl' = [cl EXCEPT ![c] = IF IsExc(response)
                                      THEN [@ EXCEPT !.pc = "idle", !.out = response]
                                      ELSE [@ EXCEPT !.pc = "send", !.pinged = TRUE]]
     ELSE /\ cl' = [cl EXCEPT ![c] = [@ EXCEPT !.pc = "idle", !.out = ConnectionError]]
          /\ tr' = tr
  /\ UNCHANGED <<proc, lock, store, h, refdb, expect, errs, nkills, ncalls, codec, self>>

\* are_we_gainfully_connected: the reply to the ping.  An error Response is raised
\* as a plain Exception, which the except clause does not catch.
FacadePong(c) ==
  /\ cl[c].pc = "pong" /\ RecvOutcome(c) # "wait"
  /\ IF RecvOutcome(c) = "frame"
     THEN LET response == deserialize(Head(tr[c].s2c)) IN
          /\ tr' = [tr EXCEPT ![c].s2c = Tail(@)]
          /\ cl' = [cl EXCEPT ![c] = IF IsExc(response)
                                      THEN [@ EXCEPT !.pc = "idle", !.out = response]
                                      ELSE [@ EXCEPT !.pc = "send", !.pinged = TRUE]]
     ELSE /\ cl' = [cl EXCEPT ![c].pc = "reconnect"]
          /\ tr' = tr
  /\ UNCHANGED <<proc, lock, store, h, refdb, expect, errs, nkills, ncalls, codec, self>>

\* subprocess.Popen.kill() on process p (0: no process)
Killed(pr, p) == IF p # 0 /\ pr[p].st \in {"starting", "listening"}
                 THEN [pr EXCEPT ![p].st = "dead"] ELSE pr

\* execute returns or raises.  A call that reconnected holds new_conn, the
\* NetSQLiteConnection connect() returned, in a local variable: on return its
\* __del__ runs at once (it kills new_conn.child_process and closes new_conn.conn,
\* the very objects just copied into self); on raise the traceback keeps the
\* frame alive and __del__ runs when the cycle collector finds it.
EndCall(c, result) ==
  LET me == [cl[c] EXCEPT !.pc = "idle", !.out = result] IN
  IF cl[c].nrec = 0
  THEN /\ cl' = [cl EXCEPT ![c] = me]
       /\ UNCHANGED proc
       /\ tr' = [tr EXCEPT ![c].s2c = IF cl[c].pc = "recv" /\ RecvOutcome(c) = "frame" THEN Tail(@) ELSE @]
  ELSE IF IsExc(result)
  THEN /\ cl' = [cl EXCEPT ![c] = [me EXCEPT !.garbage = @ \cup {[pid |-> cl[c].child, cur |-> TRUE]}]]
       /\ UNCHANGED proc
       /\ tr' = [tr EXCEPT ![c].s2c = IF cl[c].pc = "recv" /\ RecvOutcome(c) = "frame" THEN Tail(@) ELSE @]
  ELSE /\ cl' = [cl EXCEPT ![c] = me]
       /\ proc' = Killed(proc, cl[c].child)
       /\ tr' = [tr EXCEPT ![c] = [@ EXCEPT !.copen = FALSE,
                   !.s2c = IF cl[c].pc = "recv" /\ RecvOutcome(c) = "frame" THEN Tail(@) ELSE @]]

\* (mutant) a failed send of the request goes back to discovery
FacadeSend_retrying(c) ==
  /\ cl[c].pc = "send"
  /\ IF SendOutcome(c) = "sent"
     THEN /\ tr' = [tr EXCEPT ![c] = ClientSend(@, ExecuteMsg(cl[c].query, cl[c].params))]
          /\ cl' = [cl EXCEPT ![c].pc = "recv", ![c].nsent = @ + 1]
          /\ UNCHANGED proc
     ELSE /\ cl' = [cl EXCEPT ![c].pc = "reconnect"]
          /\ UNCHANGED <<proc, tr>>
  /\ UNCHANGED <<lock, store, h, refdb, expect, errs, nkills, ncalls, codec, self>>

\* (mutant) the request is written twice
FacadeSend_twice(c) ==
  /\ cl[c].pc = "send"
  /\ IF SendOutcome(c) = "sent"
     THEN /\ tr' = [tr EXCEPT ![c] = ClientSend(ClientSend(@, ExecuteMsg(cl[c].query, cl[c].params)),
                                                ExecuteMsg(cl[c].query, cl[c].params))]
          /\ cl' = [cl EXCEPT ![c].pc = "recv", ![c].nsent = @ + 2]
          /\ UNCHANGED proc
     ELSE EndCall(c, IF SendOutcome(c) = "OSError" THEN HandleClosed ELSE ConnectionError)
  /\ UNCHANGED <<lock, store, h, refdb, expect, errs, nkills, ncalls, codec, self>>

\* _send_receive(('execute', query, params)): the request is sent
FacadeSend(c) ==
  /\ cl[c].pc = "send"
  /\ IF SendOutcome(c) = "sent"
     THEN /\ tr' = [tr EXCEPT ![c] = ClientSend(@, ExecuteMsg(cl[c].query, cl[c].params))]
          /\ cl' = [cl EXCEPT ![c].pc = "recv", ![c].nsent = @ + 1]
          /\ UNCHANGED proc
     ELSE EndCall(c, IF SendOutcome(c) = "OSError" THEN HandleClosed ELSE ConnectionError)
  /\ UNCHANGED <<lock, store, h, refdb, expect, errs, nkills, ncalls, codec, self>>

\* what _send_receive returns or raises once conn.recv_bytes() is over: the decoded
\* response (an error Response is raised as it is), ConnectionError for a lost
\* peer, or the OSError of a handle closed at this end, which is not translated
ReceiveResult(c) ==
  IF RecvOutcome(c) = "frame" THEN deserialize(Head(tr[c].s2c))
  ELSE IF RecvOutcome(c) = "OSError" THEN HandleClosed
  ELSE ConnectionError

\* _send_receive(('execute', query, params)): the response, returned or raised
FacadeRecv(c) ==
  /\ cl[c].pc = "recv" /\ RecvOutcome(c) # "wait"
  /\ EndCall(c, ReceiveResult(c))
  /\ UNCHANGED <<lock, store, h, refdb, expect, errs, nkills, ncalls, codec, self>>

\* the cycle collector finalizes a new_conn left behind by a call that raised:
\* new_conn.__del__ kills its child_process and closes its conn, which is
\* self.conn as long as no later reconnect replaced it (g.cur)
CollectGarbage(c) ==
  /\ \E g \in cl[c].garbage :
       /\ cl' = [cl EXCEPT ![c] = [@ EXCEPT !.garbage = @ \ {g},
                    !.conn = IF g.cur /\ @ = "lost" THEN "closed" ELSE @]]
       /\ proc' = Killed(proc, g.pid)
       /\ tr' = [tr EXCEPT ![c].copen = IF g.cur /\ cl[c].conn = "cur" THEN FALSE ELSE @]
  /\ UNCHANGED <<lock, store, h, refdb, expect, errs, nkills, ncalls, codec, self>>

\* a server process is killed from outside (SIGKILL)
Kill(p) ==
  /\ Running(p) /\ nkills < MaxKills
  /\ proc' = [proc EXCEPT ![p].st = "dead"]
  /\ nkills' = nkills + 1
  /\ UNCHANGED <<lock, store, tr, h, cl, refdb, expect, errs, ncalls, codec, self>>

(***************************************************************************)
(* connect(db_name, auth_token)                                            *)
(***************************************************************************)
NPorts == 2          \* range(10) in connect: the slots STARTPORT + 0 .. STARTPORT + 9
Ports == 0..(NPorts - 1)

\* (mutant) the accept loop takes no new socket while one of the server's handling
\* threads is busy with a request: the peer's Client(...) is refused
Listening_idle(port) ==
  IF \E p \in Pids : /\ Running(p) /\ proc[p].port = port
                     /\ \A c \in Clients : tr[c].pid = p => h[c].pc \in {"none", "recv", "closed"}
  THEN CHOOSE p \in Pids : Running(p) /\ proc[p].port = port
  ELSE 0

\* the server process listening on a port, or 0
Listening(port) ==
  IF \E p \in Pids : Running(p) /\ proc[p].port = port
  THEN CHOOSE p \in Pids : Running(p) /\ proc[p].port = port
  ELSE 0

\* Client(('localhost', port)) succeeded: the listener accepted, serve_forever
\* started a handling thread; the first frame of the exchange is already sent
Accepted(p, first) ==
  [pid |-> p, c2s |-> <<serialize(first)>>, s2c |-> <<>>, copen |-> TRUE, sopen |-> TRUE]
FreshHandler(p) ==
  [NoHandler EXCEPT !.pc = IF proc[p].auth_token # VNone THEN "auth" ELSE "recv"]

\* the first frame connect and __poll send on a new socket
FirstMsg(c) == IF cl[c].token # VNone THEN AuthMsg(cl[c].token) ELSE TargetMsg

\* what conn.recv_bytes() can do in connect and __poll: a frame, or EOFError, or an
\* OSError (ConnectionResetError); a killed peer gives either of the two
RecvOutcomes(c) ==
  IF tr[c].s2c # <<>> THEN {"frame"}
  ELSE IF tr[c].pid = 0 \/ ~Running(tr[c].pid) THEN {"EOFError", "OSError"}
  ELSE IF ~tr[c].sopen THEN {"EOFError"}
  ELSE {}

\* the next process id subprocess.Popen hands out, 0 when the model has no more
NextPid == IF \E p \in Pids : proc[p].st = "none"
           THEN CHOOSE p \in Pids : proc[p].st = "none" /\ \A q \in Pids : proc[q].st = "none" => p <= q
           ELSE 0

\* __spawn_server_process__(db_name, port, auth_token)
Spawned(c, port) == [st |-> "starting", db |-> cl[c].db, port |-> port, auth_token |-> cl[c].token]

\* connect() is called for a client that has no NetSQLiteConnection yet
ConnectCall(c) ==
  /\ cl[c].pc = "init"
  /\ cl' = [cl EXCEPT ![c] = [@ EXCEPT !.pc = "scan", !.mode = "connect", !.off = 0, !.spawned = 0,
                               !.hist = <<>>]]
  /\ UNCHANGED <<proc, lock, store, tr, h, refdb, expect, errs, nkills, ncalls, codec, self>>

\* (mutant) the reconnect runs connect() without the token
Reconnect_tokenless(c) ==
  /\ cl[c].pc = "reconnect"
  /\ cl' = [cl EXCEPT ![c] = [@ EXCEPT !.pc = "scan", !.mode = "reconnect", !.off = 0, !.spawned = 0,
               !.hist = <<>>, !.token = VNone,
               !.conn = IF @ = "cur" THEN (IF tr[c].copen THEN "lost" ELSE "closed") ELSE @]]
  /\ UNCHANGED <<proc, lock, store, tr, h, refdb, expect, errs, nkills, ncalls, codec, self>>

\* execute found the connection dead: new_conn = connect(self.database_name, self.auth_token)
Reconnect(c) ==
  /\ cl[c].pc = "reconnect"
  /\ cl' = [cl EXCEPT ![c] = [@ EXCEPT !.pc = "scan", !.mode = "reconnect", !.off = 0, !.spawned = 0,
               !.hist = <<>>,
               !.conn = IF @ = "cur" THEN (IF tr[c].copen THEN "lost" ELSE "closed") ELSE @]]
  /\ UNCHANGED <<proc, lock, store, tr, h, refdb, expect, errs, nkills, ncalls, codec, self>>

\* connect() raises e: a first connect leaves no connection; inside execute the
\* exception leaves execute, self.conn is still the dead socket
ConnectRaises(c, e) ==
  IF cl[c].mode = "connect"
  THEN [cl[c] EXCEPT !.pc = "failed", !.out = e, !.off = 0, !.spawned = 0, !.wait = 0, !.total = 0]
  ELSE [cl[c] EXCEPT !.pc = "idle", !.out = e, !.off = 0, !.spawned = 0, !.wait = 0, !.total = 0]

\* (mutant) execute does not take over the socket of the new connection
ConnectReturns_keeping(c, child) ==
  IF cl[c].mode = "connect"
  THEN [cl[c] EXCEPT !.pc = "idle", !.conn = "cur", !.child = child, !.port = cl[c].off,
                     !.off = 0, !.spawned = 0, !.wait = 0, !.total = 0]
  ELSE [cl[c] EXCEPT !.pc = "send", !.child = child, !.nrec = @ + 1,
                     !.off = 0, !.spawned = 0, !.wait = 0, !.total = 0]

\* connect() returns NetSQLiteConnection(conn, ...) with child_process = child
ConnectReturns(c, child) ==
  IF cl[c].mode = "connect"
  THEN [cl[c] EXCEPT !.pc = "idle", !.conn = "cur", !.child = child, !.port = cl[c].off,
                     !.off = 0, !.spawned = 0, !.wait = 0, !.total = 0]
  ELSE \* self.conn = new_conn.conn; self.child_process = new_conn.child_process
       [cl[c] EXCEPT !.pc = "send", !.conn = "cur", !.child = child, !.nrec = @ + 1,
                     !.garbage = {[pid |-> g.pid, cur |-> FALSE] : g \in @},
                     !.off = 0, !.spawned = 0, !.wait = 0, !.total = 0]

\* __poll: timeout, the first wait and the longest wait, in microseconds
PollTimeout     == 10000000
PollInitialWait == 100000
PollMaxWait     == 1000000

\* except (ConnectionRefusedError, OSError) in connect: spawn a server for this
\* port and go on to __poll
SpawnHere(c) ==
  /\ NextPid # 0
  /\ proc' = [proc EXCEPT ![NextPid] = Spawned(c, cl[c].off)]
  /\ cl' = [cl EXCEPT ![c] = [@ EXCEPT !.pc = "poll", !.spawned = NextPid,
                               !.wait = PollInitialWait, !.total = 0,
                               !.hist = (IF cl[c].pc = "scan"
                                         THEN Append(@, Event("try", cl[c].off, VNone)) ELSE @)
                                        \o <<Event("spawn", cl[c].off, VNone)>>]]
  /\ UNCHANGED <<tr, h, codec, self>>

\* for port_offset in range(10): try Client(...); a refused connection spawns a
\* server on that port and goes on to __poll
Scan(c) ==
  /\ cl[c].pc = "scan"
  /\ IF cl[c].off >= NPorts
     THEN /\ cl' = [cl EXCEPT ![c] = Logged(ConnectRaises(c, VExc("RuntimeError", <<VStr("Could not create connection")>>)),
                                             "none", cl[c].off, VNone)]
          /\ UNCHANGED <<proc, tr, h>>
     ELSE LET p == Listening(cl[c].off) IN
          IF p # 0
          THEN /\ tr' = [tr EXCEPT ![c] = Accepted(p, FirstMsg(c))]
               /\ h' = [h EXCEPT ![c] = FreshHandler(p)]
               /\ cl' = [cl EXCEPT ![c] = Logged([@ EXCEPT !.pc = IF cl[c].token # VNone THEN "auth_r" ELSE "target_r"],
                                                  "try", cl[c].off, VNone)]
               /\ UNCHANGED proc
          ELSE SpawnHere(c)
  /\ UNCHANGED <<lock, store, refdb, expect, errs, nkills, ncalls, codec, self>>

\* (mutant) a rejected token is taken for a server of another database
ConnectAuthReply_continuing(c) ==
  /\ cl[c].pc = "auth_r"
  /\ \E o \in RecvOutcomes(c) :
       IF o = "frame"
       THEN LET auth_response == deserialize(Head(tr[c].s2c)) IN
            IF IsExc(auth_response)
            THEN /\ tr' = [tr EXCEPT ![c] = [@ EXCEPT !.s2c = Tail(@), !.copen = FALSE]]
                 /\ cl' = [cl EXCEPT ![c] = Logged(Logged([@ EXCEPT !.pc = "scan", !.off = @ + 1],
                                                           "reject", cl[c].off, auth_response),
                                                    "pass", cl[c].off, auth_response)]
                 /\ UNCHANGED <<proc, h>>
            ELSE /\ tr' = [tr EXCEPT ![c] = ClientSend([@ EXCEPT !.s2c = Tail(@)], TargetMsg)]
                 /\ cl' = [cl EXCEPT ![c].pc = "target_r"]
                 /\ UNCHANGED <<proc, h>>
       ELSE IF o = "OSError" THEN SpawnHere(c)
       ELSE /\ cl' = [cl EXCEPT ![c] = Logged(ConnectRaises(c, VExc("EOFError", <<>>)),
                                               "eof", cl[c].off, VNone)]
            /\ UNCHANGED <<proc, tr, h>>
  /\ UNCHANGED <<lock, store, refdb, expect, errs, nkills, ncalls, codec, self>>

\* connect: the reply to ('auth', token)
ConnectAuthReply(c) ==
  /\ cl[c].pc = "auth_r"
  /\ \E o \in RecvOutcomes(c) :
       IF o = "frame"
       THEN LET auth_response == deserialize(Head(tr[c].s2c)) IN
            IF IsExc(auth_response)
            THEN \* conn.close(); raise auth_response
                 /\ tr' = [tr EXCEPT ![c] = [@ EXCEPT !.s2c = Tail(@), !.copen = FALSE]]
                 /\ cl' = [cl EXCEPT ![c] = Logged(ConnectRaises(c, auth_response),
                                                    "reject", cl[c].off, auth_response)]
                 /\ UNCHANGED <<proc, h>>
            ELSE /\ tr' = [tr EXCEPT ![c] = ClientSend([@ EXCEPT !.s2c = Tail(@)], TargetMsg)]
                 /\ cl' = [cl EXCEPT ![c].pc = "target_r"]
                 /\ UNCHANGED <<proc, h>>
       ELSE IF o = "OSError" THEN SpawnHere(c)
       ELSE /\ cl' = [cl EXCEPT ![c] = Logged(ConnectRaises(c, VExc("EOFError", <<>>)),
                                               "eof", cl[c].off, VNone)]
            /\ UNCHANGED <<proc, tr, h>>
  /\ UNCHANGED <<lock, store, refdb, expect, errs, nkills, ncalls, codec, self>>

\* connect: the reply to ('target_database',)
ConnectTargetReply(c) ==
  /\ cl[c].pc = "target_r"
  /\ \E o \in RecvOutcomes(c) :
       IF o = "frame"
       THEN LET response == deserialize(Head(tr[c].s2c)) IN
            IF response # VStr(cl[c].db)
            THEN \* conn.close(); continue
                 /\ tr' = [tr EXCEPT ![c] = [@ EXCEPT !.s2c = Tail(@), !.copen = FALSE]]
                 /\ cl' = [cl EXCEPT ![c] = Logged([@ EXCEPT !.pc = "scan", !.off = @ + 1],
                                                    "pass", cl[c].off, response)]
                 /\ UNCHANGED <<proc, h>>
            ELSE /\ tr' = [tr EXCEPT ![c] = ClientSend([@ EXCEPT !.s2c = Tail(@)], PingMsg)]
                 /\ cl' = [cl EXCEPT ![c].pc = "ping_r"]
                 /\ UNCHANGED <<proc, h>>
       ELSE IF o = "OSError" THEN SpawnHere(c)
       ELSE /\ cl' = [cl EXCEPT ![c] = Logged(ConnectRaises(c, VExc("EOFError", <<>>)),
                                               "eof", cl[c].off, VNone)]
            /\ UNCHANGED <<proc, tr, h>>
  /\ UNCHANGED <<lock, store, refdb, expect, errs, nkills, ncalls, codec, self>>

\* connect: the reply to ('ping',), whatever it is; connect returns
ConnectPingReply(c) ==
  /\ cl[c].pc = "ping_r"
  /\ \E o \in RecvOutcomes(c) :
       IF o = "frame"
       THEN /\ tr' = [tr EXCEPT ![c].s2c = Tail(@)]
            /\ cl' = [cl EXCEPT ![c] = Logged(ConnectReturns(c, 0), "attach", cl[c].off, VNone)]
            /\ UNCHANGED <<proc, h>>
       ELSE IF o = "OSError" THEN SpawnHere(c)
       ELSE /\ cl' = [cl EXCEPT ![c] = Logged(ConnectRaises(c, VExc("EOFError", <<>>)),
                                               "eof", cl[c].off, VNone)]
            /\ UNCHANGED <<proc, tr, h>>
  /\ UNCHANGED <<lock, store, refdb, expect, errs, nkills, ncalls, codec, self>>

(***************************************************************************)
(* __server_startup__ and __poll                                           *)
(***************************************************************************)
\* (mutant) the listener binds a port that is already bound
ServerStart_sharing(p) ==
  /\ proc[p].st = "starting"
  /\ proc' = [proc EXCEPT ![p].st = "listening"]
  /\ lock' = [lock EXCEPT ![p] = 0]
  /\ UNCHANGED <<store, tr, h, cl, refdb, expect, errs, nkills, ncalls, codec, self>>

\* (mutant) the process that binds later takes the port over: the earlier listener ends
ServerStart_evicting(p) ==
  /\ proc[p].st = "starting"
  /\ proc' = [q \in Pids |-> IF q = p THEN [proc[q] EXCEPT !.st = "listening"]
                             ELSE IF q = Listening(proc[p].port) THEN [proc[q] EXCEPT !.st = "dead"]
                             ELSE proc[q]]
  /\ lock' = [lock EXCEPT ![p] = 0]
  /\ UNCHANGED <<store, tr, h, cl, refdb, expect, errs, nkills, ncalls, codec, self>>

\* NetSQLiteServer.__init__: Listener(('localhost', port)) binds, or the port is
\* taken and the process ends with the OSError
ServerStart(p) ==
  /\ proc[p].st = "starting"
  /\ proc' = [proc EXCEPT ![p].st = IF Listening(proc[p].port) = 0 THEN "listening" ELSE "dead"]
  /\ lock' = [lock EXCEPT ![p] = 0]
  /\ UNCHANGED <<store, tr, h, cl, refdb, expect, errs, nkills, ncalls, codec, self>>

\* (mutant) the wait doubles
Backoff_doubling(me) == [me EXCEPT !.pc = "poll", !.total = @ + me.wait,
                                   !.wait = IF me.wait * 2 < PollMaxWait
                                            THEN me.wait * 2 ELSE PollMaxWait]

\* sleep(wait); total_waited += wait; wait = min(wait * 1.5, 1.0)
Backoff(me) == [me EXCEPT !.pc = "poll", !.total = @ + me.wait,
                          !.wait = IF (me.wait * 3) \div 2 < PollMaxWait
                                   THEN (me.wait * 3) \div 2 ELSE PollMaxWait]

\* __poll: while total_waited < timeout: try Client(...)
Poll(c) ==
  /\ cl[c].pc = "poll"
  /\ IF cl[c].total >= PollTimeout
     THEN /\ cl' = [cl EXCEPT ![c] = Logged(ConnectRaises(c, VExc("RuntimeError", <<VStr("Giving up waiting for spawned server")>>)),
                                             "timeout", cl[c].off, VNone)]
          /\ UNCHANGED <<tr, h>>
     ELSE LET p == Listening(cl[c].off) IN
          IF p # 0
          THEN /\ tr' = [tr EXCEPT ![c] = Accepted(p, FirstMsg(c))]
               /\ h' = [h EXCEPT ![c] = FreshHandler(p)]
               /\ cl' = [cl EXCEPT ![c].pc = IF cl[c].token # VNone THEN "p_auth_r" ELSE "p_target_r"]
          ELSE /\ cl' = [cl EXCEPT ![c] = Backoff(@)]
               /\ UNCHANGED <<tr, h>>
  /\ UNCHANGED <<proc, lock, store, refdb, expect, errs, nkills, ncalls, codec, self>>

\* __poll: the reply to ('auth', token)
PollAuthReply(c) ==
  /\ cl[c].pc = "p_auth_r"
  /\ \E o \in RecvOutcomes(c) :
       IF o = "frame"
       THEN LET auth_response == deserialize(Head(tr[c].s2c)) IN
            IF IsExc(auth_response)
            THEN \* raise auth_response; the socket is dropped unclosed and collected
                 /\ tr' = [tr EXCEPT ![c] = [@ EXCEPT !.s2c = Tail(@), !.copen = FALSE]]
                 /\ cl' = [cl EXCEPT ![c] = Logged(ConnectRaises(c, auth_response),
                                                    "reject", cl[c].off, auth_response)]
            ELSE /\ tr' = [tr EXCEPT ![c] = ClientSend([@ EXCEPT !.s2c = Tail(@)], TargetMsg)]
                 /\ cl' = [cl EXCEPT ![c].pc = "p_target_r"]
       ELSE IF o = "OSError"
       THEN /\ cl' = [cl EXCEPT ![c] = Backoff(@)]
            /\ tr' = tr
       ELSE /\ cl' = [cl EXCEPT ![c] = Logged(ConnectRaises(c, VExc("EOFError", <<>>)),
                                               "eof", cl[c].off, VNone)]
            /\ tr' = tr
  /\ UNCHANGED <<proc, lock, store, h, refdb, expect, errs, nkills, ncalls, codec, self>>

\* (mutant) __poll returns the socket whatever database the listener names
PollTargetReply_unverified(c) ==
  /\ cl[c].pc = "p_target_r"
  /\ \E o \in RecvOutcomes(c) :
       IF o = "frame"
       THEN /\ tr' = [tr EXCEPT ![c].s2c = Tail(@)]
            /\ cl' = [cl EXCEPT ![c] = Logged(ConnectReturns(c, cl[c].spawned), "own", cl[c].off, VNone)]
       ELSE IF o = "OSError"
       THEN /\ cl' = [cl EXCEPT ![c] = Backoff(@)]
            /\ tr' = tr
       ELSE /\ cl' = [cl EXCEPT ![c] = Logged(ConnectRaises(c, VExc("EOFError", <<>>)),
                                               "eof", cl[c].off, VNone)]
            /\ tr' = tr
  /\ UNCHANGED <<proc, lock, store, h, refdb, expect, errs, nkills, ncalls, codec, self>>

\* __poll: the reply to ('target_database',)
PollTargetReply(c) ==
  /\ cl[c].pc = "p_target_r"
  /\ \E o \in RecvOutcomes(c) :
       IF o = "frame"
       THEN LET response == deserialize(Head(tr[c].s2c)) IN
            IF response = VStr(cl[c].db)
            THEN \* return conn; connect returns with child_process = proc
                 /\ tr' = [tr EXCEPT ![c].s2c = Tail(@)]
                 /\ cl' = [cl EXCEPT ![c] = Logged(ConnectReturns(c, cl[c].spawned), "own", cl[c].off, VNone)]
            ELSE \* conn.close(); raise RuntimeError
                 /\ tr' = [tr EXCEPT ![c] = [@ EXCEPT !.s2c = Tail(@), !.copen = FALSE]]
                 /\ cl' = [cl EXCEPT ![c] = Logged(ConnectRaises(c, VExc("RuntimeError", <<VStr("serves different database")>>)),
                                                    "other", cl[c].off, response)]
       ELSE IF o = "OSError"
       THEN /\ cl' = [cl EXCEPT ![c] = Backoff(@)]
            /\ tr' = tr
       ELSE /\ cl' = [cl EXCEPT ![c] = Logged(ConnectRaises(c, VExc("EOFError", <<>>)),
                                               "eof", cl[c].off, VNone)]
            /\ tr' = tr
  /\ UNCHANGED <<proc, lock, store, h, refdb, expect, errs, nkills, ncalls, codec, self>>

(***************************************************************************)
(* SpecExec: one server without auth_token on port 0 serving "x", every   *)
(* client already connected to it; the clients call execute.              *)
(***************************************************************************)
EmptyStore == [d \in Dbs |-> <<>>]

InitExec ==
  /\ proc = [p \in Pids |-> IF p = 1 THEN [st |-> "listening", db |-> "x", port |-> 0,
                                           auth_token |-> VNone]
                            ELSE NoProc]
  /\ lock = [p \in Pids |-> 0]
  /\ store = EmptyStore
  /\ tr = [c \in Clients |-> [pid |-> 1, c2s |-> <<>>, s2c |-> <<>>,
                              copen |-> TRUE, sopen |-> TRUE]]
  /\ h = [c \in Clients |-> [NoHandler EXCEPT !.pc = "recv"]]
  /\ cl = [c \in Clients |-> [NewClient("x", VNone) EXCEPT !.child = IF c = 1 THEN 1 ELSE 0,
                                                             !.conn = "cur"]]
  /\ refdb = EmptyStore
  /\ expect = [c \in Clients |-> VNone]
  /\ errs = [c \in Clients |-> 0]
  /\ nkills = 0
  /\ ncalls = 0
  /\ codec = NoCodec
  /\ self = NoSelf

NextExec ==
  \E c \in Clients :
    \/ ExecuteCall(c)
    \/ FacadePing(c)
    \/ FacadePong(c)
    \/ FacadeSend(c)
    \/ FacadeRecv(c)
    \/ HandleRequest(c)
    \/ AcquireLock(c)
    \/ EngineExecute(c)
    \/ EngineFetchall(c)

SpecExec == InitExec /\ [][NextExec]_vars

(***************************************************************************)
(* SpecConn: the life of one connection.  Port 0 is taken by a server,    *)
(* spawned by a process outside the model, for database "x" or for        *)
(* database "y"; client 1 connects to database "x", with the token of the  *)
(* deployment if it has one, and calls execute; server processes are      *)
(* killed from outside at any moment.                                     *)
(***************************************************************************)
\* the deployment's token: none, or one shared by the client and the servers
ConnTokens == {VNone, VStr("ab")}

InitConn ==
  /\ \E d \in Dbs, t \in ConnTokens :
       /\ proc = [p \in Pids |-> IF p = 1 THEN [st |-> "listening", db |-> d, port |-> 0,
                                                auth_token |-> t]
                                 ELSE NoProc]
       /\ cl = [c \in Clients |-> [NewClient("x", t) EXCEPT !.pc = IF c = 1 THEN "init" ELSE "absent"]]
  /\ lock = [p \in Pids |-> 0]
  /\ store = EmptyStore
  /\ tr = [c \in Clients |-> NoTransport]
  /\ h = [c \in Clients |-> NoHandler]
  /\ refdb = EmptyStore
  /\ expect = [c \in Clients |-> VNone]
  /\ errs = [c \in Clients |-> 0]
  /\ nkills = 0
  /\ ncalls = 0
  /\ codec = NoCodec
  /\ self = NoSelf

\* a spawned process binds its port, or ends, within __poll's timeout: the sleep
\* that would pass the timeout does not begin while the process is still starting
StartsInTime(c) ==
  ~(/\ cl[c].total + cl[c].wait >= PollTimeout
    /\ Listening(cl[c].off) = 0
    /\ \E p \in Pids : proc[p].st = "starting" /\ proc[p].port = cl[c].off)

NextConn ==
  \/ \E c \in {1} :
       \/ ConnectCall(c)
       \/ Scan(c)
       \/ ConnectAuthReply(c)
       \/ ConnectTargetReply(c)
       \/ ConnectPingReply(c)
       \/ Poll(c) /\ StartsInTime(c)
       \/ PollAuthReply(c)
       \/ PollTargetReply(c)
       \/ HandleAuth(c)
       \/ ExecuteCall(c)
       \/ FacadePing(c)
       \/ FacadePong(c)
       \/ Reconnect(c)
       \/ FacadeSend(c)
       \/ FacadeRecv(c)
       \/ CollectGarbage(c)
       \/ HandleRequest(c)
       \/ HandleEOF(c)
       \/ AcquireLock(c)
       \/ EngineExecute(c)
       \/ EngineFetchall(c)
  \/ \E p \in Pids :
       \/ ServerStart(p)
       \/ Kill(p)

SpecConn == InitConn /\ [][NextConn]_vars

(***************************************************************************)
(* SpecDisc: discovery.  Port 0 is taken by a server for database "y";    *)
(* every client calls connect for database "x" once; server processes are *)
(* killed from outside at any moment.                                     *)
(***************************************************************************)
InitDisc ==
  /\ proc = [p \in Pids |-> IF p = 1 THEN [st |-> "listening", db |-> "y", port |-> 0,
                                           auth_token |-> VNone]
                            ELSE NoProc]
  /\ lock = [p \in Pids |-> 0]
  /\ store = EmptyStore
  /\ tr = [c \in Clients |-> NoTransport]
  /\ h = [c \in Clients |-> NoHandler]
  /\ cl = [c \in Clients |-> [NewClient("x", VNone) EXCEPT !.pc = "init"]]
  /\ refdb = EmptyStore
  /\ expect = [c \in Clients |-> VNone]
  /\ errs = [c \in Clients |-> 0]
  /\ nkills = 0
  /\ ncalls = 0
  /\ codec = NoCodec
  /\ self = NoSelf

NextDisc ==
  \/ \E c \in Clients :
       \/ ConnectCall(c)
       \/ Scan(c)
       \/ ConnectTargetReply(c)
       \/ ConnectPingReply(c)
       \/ Poll(c) /\ StartsInTime(c)
       \/ PollTargetReply(c)
       \/ HandleRequest(c)
       \/ HandleEOF(c)
  \/ \E p \in Pids :
       \/ ServerStart(p)
       \/ Kill(p)

SpecDisc == InitDisc /\ [][NextDisc]_vars

(***************************************************************************)
(* SpecAuth: the handshake.  Port 0 is free or taken by a server for      *)
(* database "x" with or without a secret; client 1 calls connect for "x"  *)
(* with or without a token; client 2 is any peer of the listener: it      *)
(* opens a socket and writes frames of its choice, the first one any      *)
(* message, the following ones requests.                                  *)
(***************************************************************************)
Secrets   == {VStr("ab"), VStr("a#"), VStr("1")}
Tokens    == {VStr("ab"), VStr("ac"), VStr("a#")}
RawTokens == {VStr("ab"), VStr("ac"), VStr("bb"), VStr("a"), VStr("a#"), VStr("1"), VInt(1)}

\* the frames a peer may write first, and the requests it may write after
RawRequests == {PingMsg, TargetMsg, ExecuteMsg(VStr("INSERT"), VTuple(<<VInt(7)>>))}
RawFirstMsgs == {AuthMsg(t) : t \in RawTokens} \cup RawRequests
                  \cup {VStr("auth"), VTuple(<<VStr("auth")>>)}

\* a peer connects to port 0 and writes its first frame
RawConnect(c) ==
  /\ cl[c].pc = "raw" /\ tr[c].pid = 0 /\ Listening(0) # 0
  /\ \E m \in RawFirstMsgs :
       /\ tr' = [tr EXCEPT ![c] = Accepted(Listening(0), m)]
       /\ h' = [h EXCEPT ![c] = FreshHandler(Listening(0))]
       /\ cl' = [cl EXCEPT ![c].nsent = 1]
  /\ UNCHANGED <<proc, lock, store, refdb, expect, errs, nkills, ncalls, codec, self>>

\* the peer writes one more frame, whether or not the earlier ones were answered
RawSend(c) ==
  /\ cl[c].pc = "raw" /\ tr[c].pid # 0 /\ tr[c].copen /\ ~PeerGone(c)
  /\ cl[c].nsent < MaxQueue
  /\ \E m \in RawRequests :
       /\ tr' = [tr EXCEPT ![c] = ClientSend(@, m)]
       /\ cl' = [cl EXCEPT ![c].nsent = @ + 1]
  /\ UNCHANGED <<proc, lock, store, h, refdb, expect, errs, nkills, ncalls, codec, self>>

InitAuth ==
  /\ \E up \in BOOLEAN, s \in Secrets \cup {VNone} :
       proc = [p \in Pids |-> IF p = 1 /\ up
                              THEN [st |-> "listening", db |-> "x", port |-> 0, auth_token |-> s]
                              ELSE NoProc]
  /\ lock = [p \in Pids |-> 0]
  /\ store = EmptyStore
  /\ tr = [c \in Clients |-> NoTransport]
  /\ h = [c \in Clients |-> NoHandler]
  /\ \E t \in Tokens \cup {VNone} :
       cl = [c \in Clients |-> [NewClient("x", IF c = 1 THEN t ELSE VNone)
                                 EXCEPT !.pc = IF c = 1 THEN "init"
                                               ELSE IF c = 2 THEN "raw" ELSE "absent"]]
  /\ refdb = EmptyStore
  /\ expect = [c \in Clients |-> VNone]
  /\ errs = [c \in Clients |-> 0]
  /\ nkills = 0
  /\ ncalls = 0
  /\ codec = NoCodec
  /\ self = NoSelf

NextAuth ==
  \/ \E c \in {1} :
       \/ ConnectCall(c)
       \/ Scan(c)
       \/ ConnectAuthReply(c)
       \/ ConnectTargetReply(c)
       \/ ConnectPingReply(c)
       \/ Poll(c) /\ StartsInTime(c)
       \/ PollAuthReply(c)
       \/ PollTargetReply(c)
  \/ \E c \in {2} :
       \/ RawConnect(c)
       \/ RawSend(c)
  \/ \E c \in Clients :
       \/ HandleAuth(c)
       \/ HandleRequest(c)
       \/ HandleEOF(c)
       \/ AcquireLock(c)
       \/ EngineExecute(c)
       \/ EngineFetchall(c)
  \/ \E p \in Pids : ServerStart(p)

SpecAuth == InitAuth /\ [][NextAuth]_vars

(***************************************************************************)
(* SpecScan: the scan of connect().  Every port is free or taken by a     *)
(* server for database "x" or "y", with or without a secret; client 1     *)
(* calls connect for "x" once, with or without a token; server processes  *)
(* are killed from outside at any moment, and while the client polls a    *)
(* port other processes spawn servers for it.                             *)
(***************************************************************************)
ScanSecrets == {VNone, VStr("ab")}
ScanTokens  == {VNone, VStr("ab"), VStr("ac")}
\* what a port holds at the start: nothing, or a listening server
ScanSlots == {NoProc} \cup {[st |-> "listening", db |-> d, port |-> 0, auth_token |-> s] :
                              d \in Dbs, s \in ScanSecrets}

\* the connect() of another client process, of which the model shows this step
\* only, found the port free and spawns a server for its own database and token
\* there, before client c's first sleep in __poll; it binds at any later time
OutsideSpawn(c) ==
  /\ cl[c].pc = "poll" /\ cl[c].total = 0 /\ NextPid # 0
  /\ \E o \in Clients, d \in Dbs, s \in ScanSecrets :
       /\ cl[o].pc = "absent" /\ cl[o].spawned = 0
       /\ proc' = [proc EXCEPT ![NextPid] = [st |-> "starting", db |-> d, port |-> cl[c].off,
                                              auth_token |-> s]]
       /\ cl' = [cl EXCEPT ![o].spawned = NextPid]
  /\ UNCHANGED <<lock, store, tr, h, refdb, expect, errs, nkills, ncalls, codec, self>>

InitScan ==
  /\ \E f \in [Ports -> ScanSlots] :
       proc = [p \in Pids |-> IF p - 1 \in Ports /\ f[p - 1] # NoProc
                              THEN [f[p - 1] EXCEPT !.port = p - 1]
                              ELSE NoProc]
  /\ lock = [p \in Pids |-> 0]
  /\ store = EmptyStore
  /\ tr = [c \in Clients |-> NoTransport]
  /\ h = [c \in Clients |-> NoHandler]
  /\ \E t \in ScanTokens :
       cl = [c \in Clients |-> [NewClient("x", IF c = 1 THEN t ELSE VNone)
                                 EXCEPT !.pc = IF c = 1 THEN "init" ELSE "absent"]]
  /\ refdb = EmptyStore
  /\ expect = [c \in Clients |-> VNone]
  /\ errs = [c \in Clients |-> 0]
  /\ nkills = 0
  /\ ncalls = 0
  /\ codec = NoCodec
  /\ self = NoSelf

NextScan ==
  \/ \E c \in {1} :
       \/ ConnectCall(c)
       \/ Scan(c)
       \/ ConnectAuthReply(c)
       \/ ConnectTargetReply(c)
       \/ ConnectPingReply(c)
       \/ Poll(c) /\ StartsInTime(c)
       \/ PollAuthReply(c)
       \/ PollTargetReply(c)
       \/ HandleAuth(c)
       \/ HandleRequest(c)
       \/ HandleEOF(c)
       \/ OutsideSpawn(c)
  \/ \E p \in Pids :
       \/ ServerStart(p)
       \/ Kill(p)

SpecScan == InitScan /\ [][NextScan]_vars

(***************************************************************************)
(* SpecPoll: __poll under fair scheduling of the client.  Every port is   *)
(* free; client 1 calls connect for "x", spawns a server on port 0 and    *)
(* polls.  The spawned process, the servers other clients spawn for the   *)
(* port and their handling threads are not obliged to take any step: a    *)
(* process may never bind, and a listener whose socket the kernel has     *)
(* accepted may never answer.                                             *)
(***************************************************************************)
InitPoll ==
  /\ proc = [p \in Pids |-> NoProc]
  /\ lock = [p \in Pids |-> 0]
  /\ store = EmptyStore
  /\ tr = [c \in Clients |-> NoTransport]
  /\ h = [c \in Clients |-> NoHandler]
  /\ \E t \in ScanTokens :
       cl = [c \in Clients |-> [NewClient("x", IF c = 1 THEN t ELSE VNone)
                                 EXCEPT !.pc = IF c = 1 THEN "init" ELSE "absent"]]
  /\ refdb = EmptyStore
  /\ expect = [c \in Clients |-> VNone]
  /\ errs = [c \in Clients |-> 0]
  /\ nkills = 0
  /\ ncalls = 0
  /\ codec = NoCodec
  /\ self = NoSelf

\* the steps of the thread that runs connect()
PollClient(c) ==
  \/ ConnectCall(c)
  \/ Scan(c)
  \/ Poll(c)
  \/ PollAuthReply(c)
  \/ PollTargetReply(c)

NextPoll ==
  \/ \E c \in {1} :
       \/ PollClient(c)
       \/ HandleAuth(c)
       \/ HandleRequest(c)
       \/ HandleEOF(c)
       \/ OutsideSpawn(c)
  \/ \E p \in Pids :
       \/ ServerStart(p)
       \/ Kill(p)

SpecPoll == InitPoll /\ [][NextPoll]_vars /\ WF_vars(PollClient(1))

(***************************************************************************)
(* SpecLoop: the request loop of handle_client.  One server without        *)
(* auth_token serves "x"; every client is a peer of the listener with an   *)
(* accepted socket, on which it writes frames of its choice without        *)
(* reading the answers: client 1 any frame, the others well-formed         *)
(* requests.                                                               *)
(***************************************************************************)
LoopRequests == {serialize(PingMsg), serialize(ExecuteMsg(VStr("INSERT"), VTuple(<<VInt(7)>>)))}
LoopFrames ==
  LoopRequests
    \cup {serialize(TargetMsg), serialize(VStr("ping")), serialize(VTuple(<<>>)), serialize(VTuple(<<VStr("bogus")>>)),
          serialize(VTuple(<<VStr("execute"), VStr("INSERT")>>))}
    \cup {JBad("UnicodeDecodeError"), JObj("_exception" :> JBool("True"))}

InitLoop ==
  /\ proc = [p \in Pids |-> IF p = 1 THEN [st |-> "listening", db |-> "x", port |-> 0,
                                           auth_token |-> VNone]
                            ELSE NoProc]
  /\ lock = [p \in Pids |-> 0]
  /\ store = EmptyStore
  /\ tr = [c \in Clients |-> [pid |-> 1, c2s |-> <<>>, s2c |-> <<>>,
                              copen |-> TRUE, sopen |-> TRUE]]
  /\ h = [c \in Clients |-> [NoHandler EXCEPT !.pc = "recv"]]
  /\ cl = [c \in Clients |-> [NewClient("x", VNone) EXCEPT !.pc = "raw"]]
  /\ refdb = EmptyStore
  /\ expect = [c \in Clients |-> VNone]
  /\ errs = [c \in Clients |-> 0]
  /\ nkills = 0
  /\ ncalls = 0
  /\ codec = NoCodec
  /\ self = NoSelf

\* the peer writes one more frame; its history keeps the frames in order
RawWrite(c) ==
  /\ cl[c].pc = "raw" /\ tr[c].copen /\ cl[c].nsent < MaxQueue
  /\ \E f \in (IF c = 1 THEN LoopFrames ELSE LoopRequests) :
       /\ tr' = [tr EXCEPT ![c].c2s = Append(@, f)]
       /\ cl' = [cl EXCEPT ![c] = Logged([@ EXCEPT !.nsent = @ + 1], "write", cl[c].nsent + 1, f)]
  /\ UNCHANGED <<proc, lock, store, h, refdb, expect, errs, nkills, ncalls, codec, self>>

NextLoop ==
  \E c \in Clients :
    \/ RawWrite(c)
    \/ HandleRequest(c)
    \/ AcquireLock(c)
    \/ EngineExecute(c)
    \/ EngineFetchall(c)

SpecLoop == InitLoop /\ [][NextLoop]_vars

(***************************************************************************)
(* SpecServe: the peers of SpecLoop may also close their end at any moment, *)
(* with requests unread or being served; the handling thread then meets    *)
(* the EOFError of recv_bytes once the frames that arrived are read.        *)
(***************************************************************************)
\* the peer closes its socket (conn.close() of its __del__, or its process ends)
RawClose(c) ==
  /\ cl[c].pc = "raw" /\ tr[c].copen
  /\ tr' = [tr EXCEPT ![c].copen = FALSE]
  /\ UNCHANGED <<proc, lock, store, cl, h, refdb, expect, errs, nkills, ncalls, codec, self>>

\* the requests the peers send: a write and a statement the engine rejects
ServeRequests == {serialize(ExecuteMsg(VStr("INSERT"), VTuple(<<VInt(7)>>))),
                  serialize(ExecuteMsg(VStr("BAD"), VTuple(<<>>)))}

\* the peer writes one more request
ServeWrite(c) ==
  /\ cl[c].pc = "raw" /\ tr[c].copen /\ cl[c].nsent < MaxQueue
  /\ \E f \in ServeRequests :
       /\ tr' = [tr EXCEPT ![c].c2s = Append(@, f)]
       /\ cl' = [cl EXCEPT ![c].nsent = @ + 1]
  /\ UNCHANGED <<proc, lock, store, h, refdb, expect, errs, nkills, ncalls, codec, self>>

NextServe ==
  \E c \in Clients :
    \/ ServeWrite(c)
    \/ RawClose(c)
    \/ HandleRequest(c)
    \/ HandleEOF(c)
    \/ AcquireLock(c)
    \/ EngineExecute(c)
    \/ EngineFetchall(c)

SpecServe == InitLoop /\ [][NextServe]_vars

(***************************************************************************)
(* SpecShare: one NetSQLiteConnection used by several threads.  Here cl[t]  *)
(* is thread t calling execute on the shared object self, and tr[s], h[s]  *)
(* are the sockets the object has had: self.conn names the one in use.     *)
(* connect() is taken as one step with the outcome it has when it returns  *)
(* (a socket to a listening server for the database, spawned if none is    *)
(* there).  Server processes are killed from outside at any moment.        *)
(***************************************************************************)
InitShare ==
  /\ proc = [p \in Pids |-> IF p = 1 THEN [st |-> "listening", db |-> "x", port |-> 0,
                                           auth_token |-> VNone]
                            ELSE NoProc]
  /\ lock = [p \in Pids |-> 0]
  /\ store = EmptyStore
  /\ tr = [s \in Clients |-> IF s = 1 THEN [pid |-> 1, c2s |-> <<>>, s2c |-> <<>>,
                                            copen |-> TRUE, sopen |-> TRUE]
                             ELSE NoTransport]
  /\ h = [s \in Clients |-> IF s = 1 THEN [NoHandler EXCEPT !.pc = "recv"] ELSE NoHandler]
  /\ cl = [t \in Clients |-> NewClient("x", VNone)]
  /\ refdb = EmptyStore
  /\ expect = [c \in Clients |-> VNone]
  /\ errs = [c \in Clients |-> 0]
  /\ nkills = 0
  /\ ncalls = 0
  /\ codec = NoCodec
  /\ self = [conn |-> 1, child_process |-> 0, lock |-> 0]

\* execute(query, params, check) is called by thread t
ThreadCall(t) ==
  /\ cl[t].pc = "idle" /\ ncalls < MaxCalls
  /\ \E check \in BOOLEAN :
       cl' = [cl EXCEPT ![t] = [@ EXCEPT !.pc = "enter", !.check = check,
                                        !.mode = IF check THEN "ping" ELSE "execute",
                                        !.out = VNone, !.nrec = 0, !.hist = <<>>]]
  /\ ncalls' = ncalls + 1
  /\ UNCHANGED <<proc, lock, store, tr, h, refdb, expect, errs, nkills, codec, self>>

\* _send_receive has failed with the exception e (the with statement has released
\* self._lock): are_we_gainfully_connected returns False and execute goes on to
\* connect(); the exception of the execute request leaves execute.  The new_conn of
\* a call that reconnected stays in the frame the traceback holds: its __del__
\* (kill new_conn.child_process, close new_conn.conn) runs whenever that is dropped,
\* at once (now) or not at all.
ThreadFailed(t, e, now) ==
  IF cl[t].mode = "ping"
  THEN /\ cl' = [cl EXCEPT ![t].pc = "connect"]
       /\ UNCHANGED <<tr, proc>>
  ELSE /\ cl' = [cl EXCEPT ![t].pc = "idle", ![t].out = e]
       /\ tr' = IF cl[t].nrec > 0 /\ now THEN [tr EXCEPT ![cl[t].off].copen = FALSE] ELSE tr
       /\ proc' = IF cl[t].nrec > 0 /\ now THEN Killed(proc, cl[t].spawned) ELSE proc

\* with self._lock: self.conn.send_bytes(_serialize(message)).  On a socket whose peer
\* is gone the write fails (BrokenPipeError) or still succeeds, as the system has it
ThreadSend(t) ==
  /\ cl[t].pc = "enter" /\ self.lock = 0
  /\ LET s == self.conn
         message == IF cl[t].mode = "ping" THEN PingMsg ELSE ExecuteMsg(VStr("SELECT"), VTuple(<<>>))
     IN \/ /\ ~tr[s].copen
           /\ \E now \in BOOLEAN : ThreadFailed(t, HandleClosed, now)
           /\ self' = self
        \/ /\ tr[s].copen /\ PeerGone(s)
           /\ \E now \in BOOLEAN : ThreadFailed(t, ConnectionError, now)
           /\ self' = self
        \/ /\ tr[s].copen
           /\ tr' = [tr EXCEPT ![s] = ClientSend(@, message)]
           /\ cl' = [cl EXCEPT ![t] = Logged([@ EXCEPT !.pc = "sent"], "send", s, message)]
           /\ self' = [self EXCEPT !.lock = t]
           /\ proc' = proc
  /\ UNCHANGED <<lock, store, h, refdb, expect, errs, nkills, ncalls, codec>>

\* self.conn.recv_bytes(): self.conn is evaluated again, and recv_bytes is entered
\* on the socket it names now
ThreadRecv(t) ==
  /\ cl[t].pc = "sent"
  /\ cl' = [cl EXCEPT ![t].pc = "wait", ![t].port = self.conn]
  /\ UNCHANGED <<proc, lock, store, tr, h, refdb, expect, errs, nkills, ncalls, codec, self>>

\* recv_bytes returns a frame or raises; _send_receive is left and self._lock released.
\* When execute returns after a reconnect, new_conn is dropped with the frame and its
\* __del__ runs: it kills new_conn.child_process and closes new_conn.conn.
ThreadResponse(t) ==
  /\ cl[t].pc = "wait"
  /\ LET s == cl[t].port IN
     \/ /\ ~tr[s].copen
        /\ \E now \in BOOLEAN : ThreadFailed(t, HandleClosed, now)
     \/ /\ tr[s].copen /\ tr[s].s2c = <<>> /\ PeerGone(s)
        /\ \E now \in BOOLEAN : ThreadFailed(t, ConnectionError, now)
     \/ /\ tr[s].copen /\ tr[s].s2c # <<>>
        /\ LET response == deserialize(Head(tr[s].s2c))
               t1 == [tr EXCEPT ![s].s2c = Tail(@)]
           IN IF cl[t].mode = "ping"
              THEN /\ cl' = [cl EXCEPT ![t].pc = "enter", ![t].mode = "execute"]
                   /\ tr' = t1
                   /\ proc' = proc
              ELSE /\ cl' = [cl EXCEPT ![t].pc = "idle", ![t].out = response]
                   /\ tr' = IF cl[t].nrec > 0 THEN [t1 EXCEPT ![cl[t].off].copen = FALSE] ELSE t1
                   /\ proc' = IF cl[t].nrec > 0 THEN Killed(proc, cl[t].spawned) ELSE proc
  /\ self' = [self EXCEPT !.lock = 0]
  /\ UNCHANGED <<lock, store, h, refdb, expect, errs, nkills, ncalls, codec>>

\* new_conn = connect(...); self.conn = new_conn.conn;
\* self.child_process = new_conn.child_process: outside self._lock
ThreadReconnect(t) ==
  /\ cl[t].pc = "connect"
  /\ \E s \in Clients :
       /\ tr[s].pid = 0 /\ \A r \in Clients : tr[r].pid = 0 => s <= r
       /\ LET there == Listening(0)
              p == IF there # 0 THEN there ELSE NextPid
              child == IF there # 0 THEN 0 ELSE p
          IN /\ p # 0
             /\ proc' = IF there # 0 THEN proc
                        ELSE [proc EXCEPT ![p] = [st |-> "listening", db |-> "x", port |-> 0,
                                                  auth_token |-> VNone]]
             /\ tr' = [tr EXCEPT ![s] = [pid |-> p, c2s |-> <<>>, s2c |-> <<>>,
                                         copen |-> TRUE, sopen |-> TRUE]]
             /\ h' = [h EXCEPT ![s] = [NoHandler EXCEPT !.pc = "recv"]]
             /\ self' = [self EXCEPT !.conn = s, !.child_process = child]
             /\ cl' = [cl EXCEPT ![t] = [@ EXCEPT !.pc = "enter", !.mode = "execute", !.nrec = @ + 1,
                                                  !.off = s, !.spawned = child]]
  /\ UNCHANGED <<lock, store, refdb, expect, errs, nkills, ncalls, codec>>

NextShare ==
  \/ \E t \in Clients :
       \/ ThreadCall(t)
       \/ ThreadSend(t)
       \/ ThreadRecv(t)
       \/ ThreadResponse(t)
       \/ ThreadReconnect(t)
  \/ \E s \in Clients :
       \/ HandleRequest(s)
       \/ AcquireLock(s)
       \/ EngineExecute(s)
       \/ EngineFetchall(s)
  \/ \E p \in Pids : Kill(p)

SpecShare == InitShare /\ [][NextShare]_vars

(***************************************************************************)
(* SpecCodec: _serialize and _deserialize alone.  A value of the bounded   *)
(* sets below is encoded and decoded, and what came out is encoded and     *)
(* decoded again; or a frame written by a peer is decoded.                 *)
(***************************************************************************)
MaxLen   == 2        \* longest sequence among the values
MaxTrips == 2        \* round trips made with one value

CodecScalars == {VStr("a"), VStr(""), VInt(1), VInt(0), VInt(-7), VFloat("12.34"), VFloat("-0.0"),
                 VFloat("inf"), VBool("True"), VBool("False"), VNone}
\* sequences of sequences: the elements of the outer ones
CodecInner == {VInt(1), VStr("a"), VTuple(<<>>), VList(<<>>), VTuple(<<VInt(1), VStr("a")>>),
               VList(<<VBool("True"), VNone>>), VTuple(<<VTuple(<<VFloat("12.34")>>)>>)}
SeqsOver(S) == UNION {[1..n -> S] : n \in 0..MaxLen}
CodecValues ==
  CodecScalars
    \cup {VTuple(q) : q \in SeqsOver(CodecScalars)} \cup {VList(q) : q \in SeqsOver(CodecScalars)}
    \cup {VTuple(q) : q \in SeqsOver(CodecInner)} \cup {VList(q) : q \in SeqsOver(CodecInner)}
CodecErrors == {VExc("Exception", <<VStr("m")>>), VExc("ValueError", <<VStr("m")>>),
                VExc("OperationalError", <<VStr("syntax error")>>), VExc("Exception", <<>>),
                VExc("KeyError", <<VInt(5)>>)}

\* frames a peer may write: broken bytes, plain documents, records shaped like errors
PeerRecords ==
  { JObj("a" :> JNum(1)),
    JObj("_exception" :> JBool("False") @@ "a" :> JNum(1)),
    JObj("_exception" :> JBool("True")),
    JObj("_exception" :> JBool("True") @@ "type" :> JStr("T")),
    JObj("_exception" :> JNum(1) @@ "type" :> JStr("os.system") @@ "args" :> JArr(<<JStr("x")>>)),
    JObj("_exception" :> JBool("True") @@ "type" :> JStr("T") @@ "args" :> JNum(5)),
    JObj("_exception" :> JBool("True") @@ "type" :> JStr("T") @@ "args" :> JStr("xy")),
    JObj("_exception" :> JBool("True") @@ "type" :> JStr("T") @@ "args" :> JNull),
    JObj("_exception" :> JBool("True") @@ "type" :> JNum(3) @@ "args" :> JObj("0" :> JNum(1))),
    JExc("os.system", <<JStr("x")>>), JExc("Exception", <<>>), JExc("subprocess.Popen", <<JNum(1)>>) }
PeerPlain == {JStr("a"), JNum(1), JNull, JBool("True"), JReal("1.5"), JArr(<<>>)}
PeerFrames ==
  {JBad("UnicodeDecodeError"), JBad("JSONDecodeError")} \cup PeerRecords \cup PeerPlain
    \cup {JArr(q) : q \in SeqsOver(PeerPlain \cup {JObj("_exception" :> JBool("True"))})}

InitCodec ==
  /\ proc = [p \in Pids |-> NoProc]
  /\ lock = [p \in Pids |-> 0]
  /\ store = EmptyStore
  /\ tr = [c \in Clients |-> NoTransport]
  /\ h = [c \in Clients |-> NoHandler]
  /\ cl = [c \in Clients |-> [NewClient("x", VNone) EXCEPT !.pc = "absent"]]
  /\ refdb = EmptyStore
  /\ expect = [c \in Clients |-> VNone]
  /\ errs = [c \in Clients |-> 0]
  /\ nkills = 0
  /\ ncalls = 0
  /\ self = NoSelf
  /\ \/ \E v \in CodecValues \cup CodecErrors :
          codec = [NoCodec EXCEPT !.step = "start", !.obj = v, !.src = "value"]
     \/ \E f \in PeerFrames :
          codec = [NoCodec EXCEPT !.step = "sent", !.data = f, !.src = "peer"]

\* data = _serialize(obj)
Serialize ==
  /\ codec.step = "start"
  /\ codec' = [codec EXCEPT !.step = "sent", !.data = serialize(codec.obj)]
  /\ UNCHANGED <<proc, lock, store, tr, h, cl, refdb, expect, errs, nkills, ncalls, self>>

\* out = _deserialize(data)
Deserialize ==
  /\ codec.step = "sent"
  /\ codec' = [codec EXCEPT !.step = "done", !.out = deserialize(codec.data), !.trips = @ + 1]
  /\ UNCHANGED <<proc, lock, store, tr, h, cl, refdb, expect, errs, nkills, ncalls, self>>

\* what came out goes through the codec once more
SerializeAgain ==
  /\ codec.step = "done" /\ codec.trips < MaxTrips /\ ~IsRaised(codec.out)
  /\ codec' = [codec EXCEPT !.step = "sent", !.obj = codec.out, !.data = serialize(codec.out),
                            !.out = VNone, !.src = "value"]
  /\ UNCHANGED <<proc, lock, store, tr, h, cl, refdb, expect, errs, nkills, ncalls, self>>

NextCodec == Serialize \/ Deserialize \/ SerializeAgain

SpecCodec == InitCodec /\ [][NextCodec]_vars

(***************************************************************************)
(* Properties of the server executor (SpecExec)                           *)
(***************************************************************************)
\* the handling thread of client c is inside connection.execute(...).fetchall()
InEngine(c) == h[c].pc \in {"execute", "fetchall"} /\ tr[c].pid # 0 /\ Running(tr[c].pid)

\* C1: at most one handling thread of a server is inside the engine call, and a
\* thread inside the engine call, for a read as for a write, holds the server's lock
C1_EngineCallsSerialized ==
  \A c \in Clients :
    InEngine(c) =>
      /\ lock[tr[c].pid] = c
      /\ \A d \in Clients \ {c} : ~(InEngine(d) /\ tr[d].pid = tr[c].pid)

\* a read is inside the engine call while another client's request waits for the lock
C1_Witness ==
  \E c, d \in Clients :
    /\ c # d /\ tr[c].pid = tr[d].pid
    /\ h[c].pc = "fetchall" /\ QueryOf(h[c].msg) = VStr("SELECT")
    /\ h[d].pc = "lock"

\* rows as an ordered sequence of ordered sequences of scalars
PlainRows(rows) == [i \in 1..Len(rows.v) |-> rows.v[i].v]
\* client c's last call of execute is over
Completed(c) == cl[c].pc = "idle" /\ cl[c].out # VNone

\* C2: the rows every call returns are the rows the one-at-a-time engine returned
\* for it when the calls are applied in the order the lock was granted, and when no
\* engine call is running the database holds exactly the writes of all granted calls
C2_SerialEquivalence ==
  /\ \A c \in Clients :
       Completed(c) /\ ~IsExc(cl[c].out) =>
         /\ ~IsExc(expect[c])
         /\ PlainRows(cl[c].out) = PlainRows(expect[c])
  /\ (\A c \in Clients : ~InEngine(c)) => store = refdb

\* a read returned two rows written through two different connections
C2_Witness ==
  \E c \in Clients :
    /\ Completed(c) /\ cl[c].query = VStr("SELECT") /\ ~IsExc(cl[c].out)
    /\ Len(cl[c].out.v) = 2
    /\ cl[c].out.v[1] # cl[c].out.v[2]

\* the Response that carries the engine's exception, and what the caller gets
EngineErrorFrame == serialize(EngineError)
EngineErrorRaised == VExc("Exception", <<VStr("OperationalError: syntax error")>>)

\* C10: the step in which the engine raises while serving client c appends the
\* error Response to c's socket, returns c's handling thread to the receive loop
\* with the lock released, and leaves every server process and every other
\* client's socket and handling thread as they were; at all times the server
\* listens and every handling thread is alive with its socket open
C10_EngineErrorContained ==
  /\ [][\A c \in Clients :
          errs'[c] > errs[c] =>
            /\ tr'[c].s2c = Append(tr[c].s2c, EngineErrorFrame)
            /\ tr'[c].sopen /\ h'[c].pc = "recv"
            /\ lock'[tr[c].pid] = 0
            /\ proc' = proc
            /\ \A d \in Clients \ {c} : tr'[d] = tr[d] /\ h'[d] = h[d]]_vars
  /\ [](\A c \in Clients :
          Running(tr[c].pid) /\ tr[c].sopen /\ h[c].pc \notin {"none", "closed"})

\* after an engine error on a connection, a later request on the same connection
\* and a request of another client were served with rows
C10_Witness ==
  \E c, d \in Clients :
    /\ c # d /\ errs[c] >= 1
    /\ Completed(c) /\ cl[c].e0 >= 1 /\ ~IsExc(cl[c].out)
    /\ Completed(d) /\ ~IsExc(cl[d].out) /\ cl[d].query = VStr("SELECT")

(***************************************************************************)
(* Properties of the connection facade (SpecConn)                         *)
(***************************************************************************)
\* the engine rejected the statement of client c's last call, the call is over, and
\* no server process was killed from outside since the call began
EngineRejectedLastCall(c) ==
  Completed(c) /\ errs[c] > cl[c].e0 /\ nkills = cl[c].k0

\* C9: a call of execute whose statement the engine rejected raised an exception
\* that carries the engine's message and is not ConnectionError, sent the statement
\* once, and the connection's socket is open at both ends, attached to a running
\* server, for the next request
C9_EngineErrorSurfaces ==
  \A c \in Clients :
    EngineRejectedLastCall(c) =>
      /\ cl[c].out = EngineErrorRaised
      /\ cl[c].out # ConnectionError
      /\ cl[c].nsent = 1 /\ errs[c] = cl[c].e0 + 1
      /\ cl[c].conn = "cur" /\ tr[c].copen /\ Serving(c)

\* the rows a SELECT returns from table t, as the caller sees them
TableRows(t) == [i \in 1..Len(t) |-> <<VInt(t[i])>>]

\* client c's last call of execute began when the server process under its
\* connection was dead, used the liveness check, carried a statement the engine
\* accepts, and no server process was killed from outside while it ran
CallAfterKill(c) ==
  /\ Completed(c) /\ cl[c].dead0 /\ cl[c].check
  /\ cl[c].query \in {VStr("INSERT"), VStr("SELECT")}
  /\ nkills = cl[c].k0

\* C7: an execute with the liveness check, begun after the server under the
\* connection was killed, returns rows, not an exception: it reconnected once, to
\* a server process it spawned for the same database, which is another process
\* than any killed before; a SELECT returns every row the database file holds
C7_ExecuteAfterKill ==
  \A c \in Clients :
    CallAfterKill(c) =>
      /\ ~IsExc(cl[c].out)
      /\ cl[c].nrec = 1 /\ cl[c].nsent = 1
      /\ cl[c].child # 0 /\ cl[c].child = tr[c].pid
      /\ proc[cl[c].child].db = cl[c].db
      /\ cl[c].query = VStr("SELECT") =>
            PlainRows(cl[c].out) = TableRows(store[cl[c].db])

\* after the second kill, a SELECT returned a row written before the kills
C7_Witness ==
  \E c \in Clients :
    /\ CallAfterKill(c) /\ nkills >= 2
    /\ cl[c].query = VStr("SELECT") /\ ~IsExc(cl[c].out) /\ Len(cl[c].out.v) >= 1
    /\ \E p \in Pids : p # cl[c].child /\ proc[p].db = cl[c].db /\ proc[p].st = "dead"

Live(c) == cl[c].pc = "idle" /\ cl[c].conn = "cur" /\ tr[c].copen /\ Serving(c)

\* C3: two live Connections for the same database are attached to the same server
\* process, and two running servers for the same database listen on the same port
C3_OneServerPerIdentity ==
  /\ \A c, d \in Clients :
       Live(c) /\ Live(d) /\ cl[c].db = cl[d].db =>
         tr[c].pid = tr[d].pid /\ proc[tr[c].pid].db = cl[c].db
  /\ \A p, q \in Pids :
       Running(p) /\ Running(q) /\ proc[p].db = proc[q].db => proc[p].port = proc[q].port

(***************************************************************************)
(* Properties of the handshake (SpecAuth)                                 *)
(***************************************************************************)
\* the secret of the server at the other end of client c's socket
SecretOf(c) == proc[tr[c].pid].auth_token
\* the handshake of the handling thread on client c's socket is over
HandshakeOver(c) ==
  tr[c].pid # 0 /\ SecretOf(c) # VNone /\ h[c].pc \notin {"none", "auth"}
\* the first message was (auth, T)
PresentsToken(message) ==
  IsSeqVal(message) /\ Len(message.v) >= 2 /\ message.v[1] = VStr("auth")

\* C4: on a server with secret S, a peer whose first message presents token T gets
\* the success marker exactly when T equals S
C4_AdmittedIffTokenEqual ==
  \A c \in Clients :
    HandshakeOver(c) /\ PresentsToken(h[c].first) =>
      (h[c].marker <=> h[c].first.v[2] = SecretOf(c))

\* C5: when a running server for the wanted database has no secret, a connect call
\* that is over has returned a live Connection, with or without a token
C5_ConnectWithoutSecret ==
  \A c \in Clients :
    /\ cl[c].pc \in {"idle", "failed"}
    /\ \E p \in Pids : Running(p) /\ proc[p].db = cl[c].db /\ proc[p].auth_token = VNone
    => cl[c].pc = "idle" /\ Live(c)

\* C6: on a socket whose first message presents a token other than the secret, the
\* server has sent exactly one error Response, has closed the socket, and has
\* dispatched no request
C6_MismatchRejectedOnce ==
  \A c \in Clients :
    HandshakeOver(c) /\ PresentsToken(h[c].first) /\ h[c].first.v[2] # SecretOf(c) =>
      /\ h[c].rejected = 1
      /\ h[c].pc = "closed" /\ ~tr[c].sopen
      /\ ~h[c].dispatched /\ ~h[c].marker

\* the handling thread on client c's socket has read a first message
FirstReceived(c) == HandshakeOver(c) /\ h[c].first # VNone

\* C16: on a server with a secret, a request is dispatched on a socket only after
\* a first message (auth, T) with T the secret; a first message that is not an
\* authenticate message gets one error Response and the socket is closed
C16_NoDispatchBeforeAuth ==
  \A c \in Clients :
    tr[c].pid # 0 /\ SecretOf(c) # VNone =>
      /\ h[c].dispatched =>
            (PresentsToken(h[c].first) /\ h[c].first.v[2] = SecretOf(c) /\ h[c].marker)
      /\ (FirstReceived(c) /\ ~PresentsToken(h[c].first)) =>
            /\ h[c].rejected = 1
            /\ h[c].pc = "closed" /\ ~tr[c].sopen
            /\ ~h[c].dispatched /\ ~h[c].marker

(***************************************************************************)
(* Properties of the codec (SpecCodec)                                    *)
(***************************************************************************)
\* the value with every tuple, at every depth, replaced by the list of its elements
RECURSIVE Listed(_)
Listed(x) ==
  IF IsSeqVal(x) THEN VList([i \in 1..Len(x.v) |-> Listed(x.v[i])]) ELSE x

\* a round trip of a value that is not an exception is over
RoundTripOver == codec.step = "done" /\ codec.src = "value"
HasTuple(x) == Listed(x) # x

\* C11: _deserialize(_serialize(v)) is v with its tuples turned into lists, elements
\* and order kept, and is v itself when v holds no tuple
C11_RoundTrip ==
  RoundTripOver /\ ~IsExc(codec.obj) =>
    /\ codec.out = Listed(codec.obj)
    /\ ~HasTuple(codec.obj) => codec.out = codec.obj

\* a tuple nested in a tuple came back as a list in a list, a float as the same float
C11_Witness ==
  /\ RoundTripOver /\ codec.trips = 1
  /\ codec.obj = VTuple(<<VTuple(<<VTuple(<<VFloat("12.34")>>)>>), VInt(1)>>)
  /\ codec.out = VList(<<VList(<<VList(<<VFloat("12.34")>>)>>), VInt(1)>>)

\* str(e) of an exception
MessageOf(e) == IF Len(ExcArgs(e)) = 0 THEN ""
                ELSE IF Len(ExcArgs(e)) = 1 THEN PyStr(ExcArgs(e)[1]) ELSE "?"

\* C12: the round trip of an exception gives an exception of the same class with the
\* same message, and the round trip of that one gives it again
C12_ErrorRoundTrip ==
  RoundTripOver /\ IsExc(codec.obj) =>
    /\ IsExc(codec.out)
    /\ ExcClass(codec.out) = ExcClass(codec.obj)
    /\ MessageOf(codec.out) = MessageOf(codec.obj)
    /\ codec.trips = 2 => codec.out = codec.obj

\* plain data: scalars, lists and string-keyed dicts of plain data
RECURSIVE PlainData(_)
PlainData(x) ==
  IF x.ty \in {"str", "int", "float", "bool", "none"} THEN TRUE
  ELSE IF x.ty = "list" THEN \A i \in 1..Len(x.v) : PlainData(x.v[i])
  ELSE IF x.ty = "dict" THEN \A k \in DOMAIN x.v : PlainData(x.v[k])
  ELSE FALSE
\* the one generic error value: class Exception, one string as its message
GenericError(x) ==
  IsExc(x) /\ ExcClass(x) = "Exception" /\ Len(ExcArgs(x)) = 1 /\ ExcArgs(x)[1].ty = "str"

\* C13: _deserialize of a frame written by a peer raises, or returns plain data, or
\* returns the generic error value; for a record of the shape _serialize writes the
\* message is the record's type and first argument as strings
C13_ClosedSetOfValues ==
  codec.step = "done" /\ codec.src = "peer" =>
    /\ IsRaised(codec.out) \/ PlainData(codec.out) \/ GenericError(codec.out)
    /\ codec.data.ty = "jexc" =>
         /\ GenericError(codec.out)
         /\ codec.out.v[2][1].v =
              codec.data.v[1] \o ": " \o
                (IF Len(codec.data.v[2]) > 0 THEN PyStr(FromJson(codec.data.v[2][1])) ELSE "")

\* a record that names a callable as its type was decoded into the generic error
C13_Witness ==
  /\ codec.step = "done" /\ codec.src = "peer"
  /\ codec.data = JExc("os.system", <<JStr("x")>>)
  /\ codec.out = VExc("Exception", <<VStr("os.system: x")>>)

(***************************************************************************)
(* Port slots                                                              *)
(***************************************************************************)
\* the server processes started for a port, whatever became of them
StartedFor(port) == {p \in Pids : proc[p].st # "none" /\ proc[p].port = port}

\* C14: at most one live server is bound to a port at any time; when several
\* processes were started for one port and none was killed, exactly one of
\* them is listening once all have run their Listener(...) call, and the
\* others have ended
C14_OneServerPerSlot ==
  \A port \in Ports :
    /\ Cardinality({p \in StartedFor(port) : Running(p)}) <= 1
    /\ (nkills = 0 /\ StartedFor(port) # {}
          /\ \A p \in StartedFor(port) : proc[p].st # "starting")
        => /\ Cardinality({p \in StartedFor(port) : Running(p)}) = 1
           /\ \A p \in StartedFor(port) : ~Running(p) => proc[p].st = "dead"

\* two clients found port 1 free and each spawned a server for it: one listens,
\* the other ended at bind
C14_Witness ==
  /\ nkills = 0
  /\ \E p, q \in StartedFor(1) :
       /\ p # q /\ Running(p) /\ proc[q].st = "dead"
       /\ \E c, d \in Clients : c # d /\ cl[c].spawned = p /\ cl[d].spawned = q

(***************************************************************************)
(* Ownership of spawned processes                                          *)
(***************************************************************************)
\* the NetSQLiteConnection objects whose child_process is p: the facade of a
\* client, the new_conn local to an execute call that reconnected and has not
\* returned, and the new_conn objects of calls that raised, not yet collected
Holders(p) ==
  {<<"self", c>> : c \in {c \in Clients : cl[c].child = p}}
    \cup {<<"new_conn", c>> : c \in {c \in Clients : cl[c].child = p /\ cl[c].nrec > 0
                                                     /\ cl[c].pc \in {"send", "recv"}}}
    \cup {<<"garbage", c>> : c \in {c \in Clients : \E g \in cl[c].garbage : g.pid = p}}

\* process p ends in this step by a kill from outside, or at its own bind
EndsByItselfOrOutside(p) ==
  \/ nkills' = nkills + 1
  \/ proc[p].st = "starting" /\ Listening(proc[p].port) # 0

\* C15: a spawned process is child_process of one NetSQLiteConnection only, and
\* no other object kills it: the facade of a client is never torn down here, so a
\* process ends only by a kill from outside or at its own bind, and never by the
\* __del__ of the new_conn that execute created for a reconnect
C15_KilledOnlyByOwner ==
  [][\A p \in Pids :
       /\ Cardinality(Holders(p))' <= 1
       /\ (proc[p].st \in {"starting", "listening"} /\ proc'[p].st = "dead")
            => EndsByItselfOrOutside(p)]_vars

(***************************************************************************)
(* Properties of the scan of connect() (SpecScan)                          *)
(***************************************************************************)
\* the positions in the history of client c's connect() of the events named
EventsOf(c, evs) == {i \in DOMAIN cl[c].hist : cl[c].hist[i].ev \in evs}
AuthFailed   == VExc("Exception", <<VStr("Exception: Authentication failed")>>)
AuthRequired == VExc("Exception", <<VStr("Exception: Authentication required")>>)
NoServerAvailable == VExc("RuntimeError", <<VStr("Could not create connection")>>)

\* C17: when the reply to connect's ('auth', token) is an error Response, connect
\* raises it at once: this is the last thing the call does and no slot after
\* this one is tried; when the server was found listening by the scan (the step
\* before is the "try" of the slot, not a poll after a spawn), nothing is spawned
C17_RejectionEndsConnect ==
  \A c \in Clients : \A i \in EventsOf(c, {"reject"}) :
    /\ i = Len(cl[c].hist)
    /\ cl[c].pc = "failed" /\ cl[c].out = cl[c].hist[i].reply
    /\ \A j \in EventsOf(c, {"try"}) : cl[c].hist[j].slot <= cl[c].hist[i].slot
    /\ cl[c].hist[i - 1].ev = "try" => EventsOf(c, {"spawn"}) = {}
    /\ ~tr[c].copen

\* the server on port 0 rejected token "ac" while a server for the wanted
\* database listens on port 1
C17_Witness ==
  /\ cl[1].token = VStr("ac") /\ cl[1].pc = "failed" /\ cl[1].out = AuthFailed
  /\ cl[1].hist = <<Event("try", 0, VNone), Event("reject", 0, AuthFailed)>>
  /\ h[1].rejected = 1
  /\ \E p \in Pids : Running(p) /\ proc[p].port = 1 /\ proc[p].db = "x"
  /\ \A p \in Pids : proc[p].st \in {"none", "listening"}

\* C18: a client without a token that gets an error Response from a server with
\* a secret raises it: this is the last thing connect does, no later slot is
\* tried and nothing is spawned
C18_AuthRequiredPropagates ==
  \A c \in Clients : cl[c].token = VNone =>
    \A i \in DOMAIN cl[c].hist : cl[c].hist[i].reply = AuthRequired =>
      /\ i = Len(cl[c].hist)
      /\ cl[c].pc = "failed" /\ cl[c].out = AuthRequired
      /\ EventsOf(c, {"spawn"}) = {}

\* the reply that made connect pass a slot names another database
ReportsOther(c, reply) == reply.ty = "str" /\ reply # VStr(cl[c].db)

\* C19: connect tries the ports in ascending order from the first; it goes from
\* one port to the next only after a reply that names another database; it
\* spawns at most once, at a port found unreachable, and tries no port after
\* it spawned or attached
C19_ScanOrder ==
  \A c \in Clients :
    LET hist == cl[c].hist IN
    /\ \A i \in EventsOf(c, {"try"}) :
         hist[i].slot = Cardinality({j \in EventsOf(c, {"try"}) : j < i})
    /\ \A i \in EventsOf(c, {"try"}) : i > 1 =>
         hist[i - 1].ev = "pass" /\ hist[i - 1].slot = hist[i].slot - 1
    /\ \A i \in EventsOf(c, {"pass"}) : ReportsOther(c, hist[i].reply)
    /\ Cardinality(EventsOf(c, {"spawn"})) <= 1
    /\ \A i \in EventsOf(c, {"spawn", "attach"}) :
         \A j \in EventsOf(c, {"try", "pass"}) : j < i

\* connect() of client c is over
ConnectOver(c) == cl[c].hist # <<>> /\ cl[c].pc \in {"failed", "idle"}

\* C20: a connect call ends with "Could not create connection" exactly when on
\* every port a server answered with the name of another database; then the
\* call spawned nothing and left no socket open
C20_NoServerAvailable ==
  \A c \in Clients : ConnectOver(c) =>
    /\ (cl[c].pc = "failed" /\ cl[c].out = NoServerAvailable)
         <=> \A port \in Ports : \E i \in EventsOf(c, {"pass"}) :
               cl[c].hist[i].slot = port /\ ReportsOther(c, cl[c].hist[i].reply)
    /\ (cl[c].pc = "failed" /\ cl[c].out = NoServerAvailable)
         => EventsOf(c, {"spawn"}) = {} /\ ~tr[c].copen

(***************************************************************************)
(* Properties of __poll (SpecScan)                                         *)
(***************************************************************************)
\* C21: a poll attempt answered by a listener that names another database is
\* followed by more polling: connect is not over, and it has not failed with
\* the error of the mismatch
C21_MismatchKeepsPolling ==
  \A c \in Clients : \A i \in EventsOf(c, {"other"}) :
    ReportsOther(c, cl[c].hist[i].reply) =>
      /\ cl[c].pc \in {"poll", "p_auth_r", "p_target_r"}
      /\ ~ConnectOver(c)

\* C22: the socket of a NetSQLiteConnection leads to a server process for the
\* Connection's database_name, and when the Connection has a token the
\* handshake on that socket ended with the success marker
C22_ConnectionReachesItsDatabase ==
  \A c \in Clients : cl[c].conn = "cur" =>
    /\ tr[c].pid # 0 /\ proc[tr[c].pid].db = cl[c].db
    /\ cl[c].token # VNone => h[c].marker /\ h[c].first = Listed(AuthMsg(cl[c].token))

\* connect polled the server it spawned with token "ab" and returned, while the
\* server another client spawned for database "y" on the same port lost the bind
C22_Witness ==
  /\ cl[1].pc = "idle" /\ cl[1].conn = "cur" /\ cl[1].token = VStr("ab")
  /\ cl[1].hist[Len(cl[1].hist)].ev = "own"
  /\ tr[1].pid = cl[1].child /\ Running(cl[1].child)
  /\ \E p \in Pids : proc[p].st = "dead" /\ proc[p].db = "y" /\ proc[p].port = cl[1].port

\* min(0.1 * 1.5^k, 1.0) in microseconds, and the sum of the first k of them
\* (0.1 * 1.5^6 is above 1.0, so from k = 6 on the delay is the cap; below,
\* 100000 * 3^k is a multiple of 2^k)
DelayOf(k) == IF k < 6 /\ (PollInitialWait * 3^k) \div 2^k < PollMaxWait
              THEN (PollInitialWait * 3^k) \div 2^k ELSE PollMaxWait
RECURSIVE SleptBefore(_)
SleptBefore(k) == IF k = 0 THEN 0 ELSE SleptBefore(k - 1) + DelayOf(k - 1)

\* C23: after k failed attempts __poll has slept the first k delays
\* min(0.1 * 1.5^k, 1.0) and the next delay is the k-th; the delays start at 0.1,
\* never decrease and never exceed 1.0; the sum reaches the timeout of 10.0 at
\* k = 14 and not before
C23_BackoffSchedule ==
  \A c \in Clients : cl[c].pc \in {"poll", "p_auth_r", "p_target_r"} =>
    \E k \in 0..14 :
      /\ cl[c].wait = DelayOf(k) /\ cl[c].total = SleptBefore(k)
      /\ PollInitialWait <= cl[c].wait /\ cl[c].wait <= PollMaxWait
      /\ k > 0 => DelayOf(k - 1) <= DelayOf(k)
      /\ PollInitialWait * 3^6 >= PollMaxWait * 2^6
      /\ cl[c].total >= PollTimeout <=> k = 14

\* fourteen attempts failed: the loop condition is false and __poll gives up
C23_Witness ==
  /\ cl[1].pc = "poll" /\ cl[1].total = SleptBefore(14) /\ cl[1].total >= PollTimeout
  /\ cl[1].total - cl[1].wait < PollTimeout
  /\ Listening(cl[1].off) = 0

\* C24: every connect() that polls comes to an end: __poll returns a socket or
\* raises
C24_PollTerminates ==
  \A c \in {1} : (cl[c].pc \in {"poll", "p_auth_r", "p_target_r"}) ~> ConnectOver(c)

(***************************************************************************)
(* Reconnection (SpecConn)                                                 *)
(***************************************************************************)
\* C25: a Connection keeps its database_name and auth_token for life, so the
\* connect() that execute runs uses them; in an execute call that reconnected,
\* the new socket leads to a server for that database on which, if there is a
\* token, the handshake with that token succeeded before any request was
\* dispatched; and every server the Connection spawned or holds was started
\* with that database and that token
C25_ReconnectSameIdentityAndToken ==
  [][\A c \in Clients :
       /\ cl'[c].db = cl[c].db /\ cl'[c].token = cl[c].token
       /\ (cl'[c].nrec > 0 /\ cl'[c].pc \in {"send", "recv"}) =>
            /\ proc'[tr'[c].pid].db = cl[c].db
            /\ cl[c].token # VNone =>
                  /\ h'[c].marker /\ h'[c].first = Listed(AuthMsg(cl[c].token))
                  /\ proc'[tr'[c].pid].auth_token = cl[c].token
       /\ \A p \in {cl'[c].spawned, cl'[c].child} \ {0} :
            proc'[p].db = cl[c].db /\ proc'[p].auth_token = cl[c].token]_vars

\* an execute call found the server dead, spawned a new one with the token and
\* sent its request on the authenticated socket
C25_Witness ==
  /\ cl[1].token = VStr("ab") /\ cl[1].nrec = 1 /\ cl[1].pc = "recv"
  /\ cl[1].child # 0 /\ tr[1].pid = cl[1].child /\ Running(cl[1].child)
  /\ proc[cl[1].child] = [st |-> "listening", db |-> "x", port |-> cl[1].port,
                            auth_token |-> VStr("ab")]
  /\ h[1].marker /\ cl[1].nsent = 1

(***************************************************************************)
(* The request loop (SpecLoop)                                             *)
(***************************************************************************)
\* the frame the handling thread of c takes in this step
Taken(c) == IF h[c].pc = "recv" /\ tr[c].c2s # <<>> /\ tr'[c].c2s = Tail(tr[c].c2s)
            THEN deserialize(Head(tr[c].c2s)) ELSE VNone
\* the responses sent to c in this step
Answers(c) == SubSeq(tr'[c].s2c, Len(tr[c].s2c) + 1, Len(tr'[c].s2c))
KnownKinds == {VStr("execute"), VStr("target_database"), VStr("ping")}
\* decodable, but not a well-formed known request
Malformed(m) ==
  /\ m # VNone /\ ~IsRaised(m)
  /\ \/ ~IsSeqVal(m)
     \/ Len(m.v) = 0
     \/ m.v[1] \notin KnownKinds
     \/ m.v[1] = VStr("execute") /\ Len(m.v) < 3

\* C26: a decodable message that is not a well-formed known request (not a sequence,
\* an empty sequence, an unknown kind, execute with fewer than two arguments) is
\* answered with exactly one error response, without an engine call (database and
\* lock untouched, the thread does not go on to the lock), and the thread stays in
\* its loop on an open socket, where the next request is served
C26_MalformedAnsweredOnce ==
  [][\A c \in Clients :
       Malformed(Taken(c)) =>
         /\ Len(Answers(c)) = 1 /\ GenericError(deserialize(Answers(c)[1]))
         /\ store' = store /\ lock' = lock /\ refdb' = refdb
         /\ h'[c].pc = "recv" /\ tr'[c].sopen /\ Serving(c)']_vars

\* each kind of malformed message has been answered, and a ping written after an
\* unknown method got its pong
C26_Witness ==
  /\ cl[1].pc = "raw" /\ Len(cl[1].hist) = 2 /\ tr[1].c2s = <<>>
  /\ cl[1].hist[1].reply = serialize(VTuple(<<VStr("bogus")>>))
  /\ cl[1].hist[2].reply = serialize(PingMsg)
  /\ Len(tr[1].s2c) = 2
  /\ deserialize(tr[1].s2c[1]) = VExc("Exception", <<VStr("Exception: Unknown method: bogus")>>)
  /\ deserialize(tr[1].s2c[2]) = VStr("pong")
  /\ h[1].pc = "recv" /\ tr[1].sopen

\* C27: a frame that cannot be decoded (not valid UTF-8 JSON, or an error-shaped
\* record with a field missing) is handled like a malformed request: it is answered
\* with one error response, the handling thread stays in its loop and the socket
\* stays open for later requests
C27_UndecodableKeepsServing ==
  [][\A c \in Clients :
       (Taken(c) # VNone /\ IsRaised(Taken(c))) =>
         /\ Len(Answers(c)) = 1 /\ GenericError(deserialize(Answers(c)[1]))
         /\ h'[c].pc = "recv" /\ tr'[c].sopen]_vars

\* C28: serving ping or target_database changes nothing: not the database contents,
\* not the server's identity or secret, not the lock, not any other connection; the
\* step does not wait for the lock, and answers "pong" or the database path
C28_PingAndTargetChangeNothing ==
  [][\A c \in Clients :
       LET m == Taken(c)
       IN (m # VNone /\ IsSeqVal(m) /\ Len(m.v) > 0 /\ m.v[1] \in {VStr("ping"), VStr("target_database")}) =>
            /\ store' = store /\ proc' = proc /\ lock' = lock /\ cl' = cl
            /\ \A o \in Clients \ {c} : tr'[o] = tr[o] /\ h'[o] = h[o]
            /\ h'[c].pc = "recv" /\ tr'[c].sopen
            /\ Answers(c) = <<serialize(IF m.v[1] = VStr("ping") THEN VStr("pong")
                                         ELSE VStr(proc[tr[c].pid].db))>>]_vars

\* both requests have been answered on one socket while the handling thread of
\* another connection is inside the engine call, holding the lock, with rows stored
C28_Witness ==
  /\ lock[1] = 2 /\ h[2].pc = "fetchall" /\ store["x"] # <<>>
  /\ Len(cl[1].hist) = 3 /\ tr[1].c2s = <<>>
  /\ cl[1].hist[2].reply = serialize(PingMsg) /\ cl[1].hist[3].reply = serialize(TargetMsg)
  /\ Len(tr[1].s2c) = 3
  /\ deserialize(tr[1].s2c[2]) = VStr("pong") /\ deserialize(tr[1].s2c[3]) = VStr("x")

\* C29: on one socket the k-th response answers the k-th frame the peer wrote: the
\* thread works on one request at a time, every frame it has taken has exactly one
\* response (the one in progress excepted), and each response is the one its
\* request calls for: the rows for an execute that reaches the engine, the
\* dispatcher's reply or error for every other message, an error for a frame
\* that cannot be decoded
C29_KthResponseAnswersKthRequest ==
  \A c \in Clients :
    cl[c].pc = "raw" =>
      LET taken == cl[c].nsent - Len(tr[c].c2s)
          busy  == IF h[c].pc \in {"lock", "execute", "fetchall"} THEN 1 ELSE 0
      IN /\ Len(tr[c].s2c) = taken - busy
         /\ \A k \in 1..Len(tr[c].s2c) :
              LET m == deserialize(cl[c].hist[k].reply)
                  r == deserialize(tr[c].s2c[k])
              IN IF IsRaised(m) THEN GenericError(r)
                 ELSE IF CallsEngine(m) THEN IsSeqVal(r)
                 ELSE r = deserialize(serialize(Dispatch(m, proc[tr[c].pid].db)))

(***************************************************************************)
(* Threads on one NetSQLiteConnection (SpecShare)                          *)
(***************************************************************************)
\* C30: the exchanges of threads calling execute on one object never interleave:
\* between a thread's request frame and the receipt of its response it holds
\* self._lock and no other thread is between a send and its receive, and the thread
\* waits for its response on the socket it sent its request on, also when another
\* thread's execute has reconnected and put a new socket in self.conn meanwhile
C30_ExchangesDoNotInterleave ==
  \A t \in Clients :
    cl[t].pc \in {"sent", "wait"} =>
      /\ self.lock = t
      /\ \A u \in Clients \ {t} : cl[u].pc \notin {"sent", "wait"}
      /\ cl[t].pc = "wait" => cl[t].port = cl[t].hist[Len(cl[t].hist)].slot

(***************************************************************************)
(* The accept loop and the lock                                            *)
(***************************************************************************)
\* C31: the accept loop is never blocked by a client: when connect tries a port on
\* which a server runs, then whatever the server's handling threads are doing
\* (waiting for a frame, mid-handshake, waiting for the lock, inside the engine
\* call) the socket is accepted and gets a handling thread of its own, and no
\* other socket or thread is touched
C31_AcceptNeverBlocked ==
  \A c \in Clients : \A p \in Pids :
    (cl[c].pc = "scan" /\ cl[c].off < NPorts /\ Running(p) /\ proc[p].port = cl[c].off) =>
      ENABLED (/\ Scan(c)
               /\ tr'[c].pid = p /\ tr'[c].sopen /\ tr'[c].copen
               /\ h'[c].pc = (IF proc[p].auth_token # VNone THEN "auth" ELSE "recv")
               /\ \A o \in Clients \ {c} : tr'[o] = tr[o] /\ h'[o] = h[o])

\* connect's socket has been accepted and its first frame is still unread, while
\* the handling thread of another socket of that server is inside the engine call
C31_Witness ==
  /\ cl[1].pc \in {"auth_r", "target_r"} /\ Serving(1)
  /\ tr[1].c2s = <<serialize(FirstMsg(1))>> /\ h[1] = FreshHandler(tr[1].pid)
  /\ tr[2].pid = tr[1].pid /\ h[2].pc = "fetchall" /\ lock[tr[1].pid] = 2

\* C32: while the handling thread of one socket is inside the engine call with the
\* lock, however long, only that thread is held up: on every other socket of the
\* server the next frame can be taken, a ping or target_database request is
\* answered in that step, an execute request goes to the lock and waits there
\* (the lock and the stuck thread untouched), and a thread waiting at a free lock
\* can take it
C32_StuckCallBlocksOnlyItself ==
  /\ \A c \in Clients :
       (tr[c].pid # 0 /\ Running(tr[c].pid) /\ tr[c].sopen /\ h[c].pc \in {"execute", "fetchall"}) =>
         /\ lock[tr[c].pid] = c
         /\ \A o \in Clients \ {c} :
              (tr[o].pid = tr[c].pid /\ tr[o].sopen) =>
                /\ (h[o].pc = "recv" /\ tr[o].c2s # <<>>) =>
                     ENABLED (/\ HandleRequest(o)
                              /\ lock' = lock /\ h'[c] = h[c] /\ tr'[c] = tr[c]
                              /\ LET m == deserialize(Head(tr[o].c2s))
                                 IN /\ CallsEngine(m) => h'[o].pc = "lock"
                                    /\ (~IsRaised(m) /\ ~CallsEngine(m)) =>
                                          /\ h'[o].pc = "recv"
                                          /\ Len(tr'[o].s2c) = Len(tr[o].s2c) + 1)
                /\ h[o].pc = "lock" => ~ENABLED AcquireLock(o)
  /\ \A o \in Clients :
       (tr[o].pid # 0 /\ Running(tr[o].pid) /\ tr[o].sopen /\ h[o].pc = "lock"
          /\ lock[tr[o].pid] = 0) => ENABLED AcquireLock(o)

\* one thread is inside the engine call; on the other socket a ping has been
\* answered and the execute request written after it waits at the lock
C32_Witness ==
  /\ h[1].pc = "execute" /\ lock[1] = 1
  /\ Len(cl[2].hist) = 2 /\ cl[2].hist[1].reply = serialize(PingMsg)
  /\ tr[2].s2c = <<serialize(VStr("pong"))>> /\ tr[2].c2s = <<>> /\ h[2].pc = "lock"

(***************************************************************************)
(* The facade's errors and sockets                                         *)
(***************************************************************************)
\* C33: a stream-level failure met during execute (in the liveness ping, in the
\* exchange of the request, in the handshake of a reconnect) reaches the caller as
\* ConnectionError only: no call of execute ends with the EOFError or OSError of
\* the socket itself; an error the server sent is raised as another kind
C33_StreamFailuresAreConnectionLost ==
  \A c \in Clients :
    (cl[c].pc = "idle" /\ IsExc(cl[c].out)) =>
      /\ ExcClass(cl[c].out) \notin {"EOFError", "OSError", "BrokenPipeError", "ConnectionResetError"}
      /\ GenericError(cl[c].out) => ExcClass(cl[c].out) # ExcClass(ConnectionError)

\* C34: the object has one socket at a time, self.conn; a reconnect replaces it
\* atomically with respect to requests (no exchange is under way when self.conn
\* changes), and frames are written to and read from the socket self.conn names
\* only, never an earlier one
C34_OneSocketAtATime ==
  [][/\ self'.conn # self.conn =>
          /\ self.lock = 0
          /\ \A t \in Clients : cl[t].pc \notin {"sent", "wait"}
     /\ \A s \in Clients :
          (Len(tr'[s].c2s) > Len(tr[s].c2s) \/ Len(tr'[s].s2c) < Len(tr[s].s2c)) => s = self.conn]_vars

(***************************************************************************)
(* Concurrent discovery (SpecDisc)                                         *)
(***************************************************************************)
\* C35: when clients call connect for the same database while no server for it
\* exists, and nothing is killed from outside, every call that is over has returned
\* a Connection, and these are all attached to one and the same running server for
\* that database, the only one there is, also for a client whose own spawned
\* process lost the bind
C35_BindRaceLosersAttach ==
  nkills = 0 =>
    /\ \A c \in Clients : ConnectOver(c) =>
         /\ cl[c].pc = "idle" /\ cl[c].conn = "cur" /\ tr[c].copen
         /\ Running(tr[c].pid) /\ proc[tr[c].pid].db = cl[c].db
    /\ \A c, d \in Clients : (ConnectOver(c) /\ ConnectOver(d)) => tr[c].pid = tr[d].pid
    /\ Cardinality({p \in Pids : Running(p) /\ proc[p].db = "x"}) <= 1

\* both clients found the port free and spawned; the process of client 2 lost the
\* bind and is dead, and both Connections are attached to the process of client 1
C35_Witness ==
  /\ nkills = 0 /\ ConnectOver(1) /\ ConnectOver(2)
  /\ EventsOf(1, {"spawn"}) # {} /\ EventsOf(2, {"spawn"}) # {}
  /\ cl[1].child # 0 /\ cl[2].child # 0 /\ cl[1].child # cl[2].child
  /\ proc[cl[2].child].st = "dead" /\ Running(cl[1].child)
  /\ tr[1].pid = cl[1].child /\ tr[2].pid = cl[1].child

(***************************************************************************)
(* One call, one request (SpecConn)                                        *)
(***************************************************************************)
\* C36: a call of execute sends its execute frame at most once, whatever the
\* liveness check and the reconnect did, so its statement runs at most once: the
\* rows a client has inserted are never more than the calls it has made, and
\* nothing is sent before the liveness check and the reconnect are over
C36_QueryRunsAtMostOnce ==
  \A c \in Clients :
    /\ cl[c].nsent <= 1
    /\ Cardinality({i \in DOMAIN store[cl[c].db] : store[cl[c].db][i] = c}) <= ncalls
    /\ cl[c].pc \in {"ping", "pong", "reconnect", "scan", "send"} => cl[c].nsent = 0

\* an INSERT whose call pinged, found the server dead, reconnected and returned:
\* one frame sent, one row in the table
C36_Witness ==
  /\ cl[1].pc = "idle" /\ cl[1].query = VStr("INSERT") /\ ~IsExc(cl[1].out) /\ cl[1].out # VNone
  /\ cl[1].check /\ cl[1].nrec = 1 /\ cl[1].nsent = 1 /\ ncalls = 1
  /\ store["x"] = <<1>>

(***************************************************************************)
(* The Connection after a reconnect (SpecConn)                             *)
(***************************************************************************)
\* C37: the step in which an execute that reconnected returns its result leaves
\* the Connection usable: the socket self.conn is open after it, and no server
\* process that was running before the step is ended by it, the one the
\* reconnect spawned included
C37_UsableAfterReconnect ==
  [][\A c \in Clients :
       (cl[c].pc = "recv" /\ cl[c].nrec > 0 /\ cl'[c].pc = "idle" /\ ~IsExc(cl'[c].out))
         => /\ tr'[c].copen
            /\ \A p \in Pids : Running(p) => proc'[p].st = "listening"]_vars

(***************************************************************************)
(* The server's lock is the engine call's (SpecServe)                      *)
(***************************************************************************)
\* C38: the lock of a running server is held only by a handling thread that is
\* inside the engine call on a socket of that server, and that thread's next
\* step, which ends or continues the call, is enabled whatever its peer has
\* done; so with no thread inside the engine call the lock is free, and a
\* request waiting for the lock waits for a call that can finish
C38_LockOnlyInsideEngineCall ==
  \A p \in Pids :
    Running(p) =>
      /\ lock[p] # 0 =>
           LET c == lock[p] IN
           /\ c \in Clients /\ tr[c].pid = p
           /\ h[c].pc \in {"execute", "fetchall"}
           /\ ENABLED (EngineExecute(c) \/ EngineFetchall(c))
      /\ lock[p] = 0 =>
           \A d \in Clients :
             (tr[d].pid = p /\ tr[d].sopen /\ h[d].pc = "lock") => ENABLED AcquireLock(d)

\* the engine has rejected a statement of one peer, whose thread is back at
\* recv_bytes; another peer closed its socket before the reply to its INSERT
\* could be sent: the row is stored, the reply is lost, its thread has ended;
\* and the lock is free
C38_Witness ==
  \E c, d \in Clients :
    /\ c # d /\ Running(1) /\ lock[1] = 0
    /\ errs[c] > 0 /\ h[c].pc = "recv" /\ tr[c].sopen
    /\ ~tr[d].copen /\ h[d].pc = "closed" /\ cl[d].nsent = 1 /\ tr[d].s2c = <<>>
    /\ store["x"] = <<7>>

(***************************************************************************)
(* The process a failed connect() has spawned (SpecScan)                   *)
(***************************************************************************)
\* C39: when connect raises after it has spawned a server process (from __poll:
\* the timeout, another database's name, a rejected token, a lost peer), the
\* process is not left alive without an owner: after the step it has ended, or
\* some NetSQLiteConnection holds it as child_process
C39_FailedConnectLeavesNoOrphan ==
  [][\A c \in Clients, p \in Pids :
       (/\ cl[c].pc \in {"poll", "p_auth_r", "p_target_r"} /\ cl[c].spawned = p
        /\ cl'[c].pc \in {"failed", "idle"} /\ IsExc(cl'[c].out))
         => \/ proc'[p].st \notin {"starting", "listening"}
            \/ Holders(p)' # {}]_vars

(***************************************************************************)
(* The liveness check (SpecConn)                                           *)
(***************************************************************************)
\* C40: are_we_gainfully_connected returns True (execute goes on to send its
\* request) exactly in the step that reads the server's pong on self.conn, and
\* returns False (execute goes on to connect) without raising when the send or
\* the receive meets a connection failure; it leaves self.conn, child_process,
\* the database name and the token as they were, the socket open or closed as
\* it was, and while it runs no handling thread of the server enters the engine
\* call and no table changes on its account
C40_LivenessCheckOnlyPings ==
  [][\A c \in Clients :
       cl[c].pc \in {"ping", "pong"} =>
         /\ cl'[c].pc = "send" <=>
              /\ cl[c].pc = "pong" /\ tr[c].copen /\ tr[c].s2c # <<>>
              /\ Head(tr[c].s2c) = serialize(VStr("pong"))
              /\ tr'[c].s2c = Tail(tr[c].s2c)
         /\ (cl'[c].pc # cl[c].pc /\ (IF cl[c].pc = "ping" THEN SendOutcome(c) # "sent"
                                      ELSE RecvOutcome(c) \in {"OSError", "ConnectionError"}))
              => cl'[c].pc = "reconnect" /\ cl'[c].out = cl[c].out
         /\ cl'[c].pc # cl[c].pc =>
              /\ cl'[c].conn = cl[c].conn /\ cl'[c].child = cl[c].child
              /\ cl'[c].db = cl[c].db /\ cl'[c].token = cl[c].token /\ cl'[c].port = cl[c].port
              /\ tr'[c].pid = tr[c].pid /\ tr'[c].copen = tr[c].copen /\ tr'[c].sopen = tr[c].sopen
              /\ proc' = proc /\ h' = h /\ store' = store /\ lock' = lock
         /\ h[c].pc \notin {"lock", "execute", "fetchall"}
              => /\ h'[c].pc \notin {"lock", "execute", "fetchall"}
                 /\ store' = store /\ lock' = lock]_vars

\* the liveness check of a second call has returned True: the pong was read on
\* the socket of the first call, the thread that answered is back at recv_bytes,
\* and the table holds the one row the first call inserted
C40_Witness ==
  /\ cl[1].pc = "send" /\ cl[1].pinged /\ cl[1].nrec = 0 /\ cl[1].conn = "cur"
  /\ tr[1].copen /\ Running(tr[1].pid) /\ h[1].pc = "recv"
  /\ tr[1].c2s = <<>> /\ tr[1].s2c = <<>>
  /\ ncalls = 2 /\ store["x"] = <<1>>

====
